---- MODULE Spec2Model ----
(***************************************************************************)
(* A model of the axis-lh-server runtime engine: the health engine         *)
(* (health.c), the cached VAPIX accessor (vapix.c), the log ring           *)
(* (log_buffer.c) and the request dispatcher (http_server.c) with the      *)
(* lrf-controller program built on it (lrf_controller.c).                  *)
(*                                                                         *)
(* Real numbers of the program (double) are modelled as integers: every    *)
(* value the program compares is produced from an integer counter by a     *)
(* division by a positive constant, and only its order relative to the     *)
(* thresholds matters.  No collector of the program produces a NaN.        *)
(***************************************************************************)
EXTENDS Integers, Sequences, FiniteSets, TLC

VARIABLES
    \* ---- health.c ----
    checks,            \* the HealthCheck array handed to calculate_overall_status
    deps,              \* the DependencyCheck array
    overall_status,    \* the value calculate_overall_status returned
    hpc,               \* "input" | "evaluated" | "report": what filled the arrays
    collected,         \* the collector results generate_health_report last saw
    reports,           \* the HealthReport objects of a caller of generate_health_report
    \* ---- vapix.c ----
    now,                  \* what time(NULL) returns
    g_vapix_initialized,  \* the client has credentials and libcurl is set up
    temperature_cache,    \* CachedDouble: value, timestamp, valid, ttl_seconds
    device_info_cache,    \* CachedDeviceInfo: value, timestamp, valid, ttl_seconds
    cache_mutex,          \* the thread holding cache_mutex, NoThread when it is free
    frame,                \* per thread: the get_cached_* call it is in, with its locals
    refresh_failed,       \* per cache: a stale value was served after the ttl had
                          \* elapsed and nothing has been stored since (history)
    \* ---- log_buffer.c ----
    g_log_buffer,              \* LogBuffer: entries, head, count, lock
    g_log_buffer_initialized,  \* the lazy-initialisation flag
    lframe,                    \* per thread: the log_event / get_recent_logs_limited
                               \* call it is in, with its arguments and locals
    log_calls,                 \* number of log_event calls started so far
    appended,                  \* the entries of the completed appends, in the order
                               \* in which their critical sections ended (history)
    \* ---- http_server.c, lrf_controller.c, metrics.c ----
    server,                 \* pointer to the HttpServer (server_fd, running, handlers);
                            \* NULL before http_server_new and after http_server_free
    lrf_device,             \* pointer to the LrfDevice of lrf_controller.c, or NULL
    proc,                   \* the process: program, position of main, locals of
                            \* http_server_run, exit status
    os,                     \* the open descriptors, the process log, the number
                            \* of connections accepted so far, the number of
                            \* device calls that returned FALSE so far (history)
    conn,                   \* the connection accepted last: close calls, responses
                            \* written, handlers invoked (history)
    g_http_requests_total,  \* metrics.c:27
    \* ---- metrics.c, metrics_helpers.c ----
    cpu_statics,            \* the static locals prev_cpu and first_sample of
                            \* collect_system_metrics
    metrics_response,       \* what metrics_handler last wrote, and what the
                            \* collaborators had answered (history)
    cpu_call                \* a call of calculate_cpu_usage: arguments and result

healthVars == <<checks, deps, overall_status, hpc, collected, reports>>

cacheVars == <<now, g_vapix_initialized, temperature_cache, device_info_cache,
               cache_mutex, frame, refresh_failed>>

logVars == <<g_log_buffer, g_log_buffer_initialized, lframe, log_calls, appended>>

\* The variables of the components other than the health engine and the cache.
httpVars == <<server, lrf_device, proc, os, conn, g_http_requests_total>>

metricsVars == <<cpu_statics, metrics_response, cpu_call>>

otherVars == <<logVars, httpVars, metricsVars>>

vars == <<checks, deps, overall_status, hpc, collected, reports,
          now, g_vapix_initialized, temperature_cache, device_info_cache,
          cache_mutex, frame, refresh_failed,
          g_log_buffer, g_log_buffer_initialized, lframe, log_calls, appended,
          server, lrf_device, proc, os, conn, g_http_requests_total,
          cpu_statics, metrics_response, cpu_call>>

----------------------------------------------------------------------------
(* health.h: enumerations *)

HEALTH_STATUS_HEALTHY == 0
HEALTH_STATUS_DEGRADED == 1
HEALTH_STATUS_UNHEALTHY == 2

THRESHOLD_TYPE_LOWER_BAD == 0
THRESHOLD_TYPE_HIGHER_BAD == 1

HealthStatus == {HEALTH_STATUS_HEALTHY, HEALTH_STATUS_DEGRADED, HEALTH_STATUS_UNHEALTHY}
ThresholdType == {THRESHOLD_TYPE_LOWER_BAD, THRESHOLD_TYPE_HIGHER_BAD}

(* A HealthCheck and a DependencyCheck as the caller hands them over: the   *)
(* status field is still the zero of static storage.                       *)
HealthCheck(name, value, warning, critical, type) ==
    [name |-> name, value |-> value, warning_threshold |-> warning,
     critical_threshold |-> critical, threshold_type |-> type,
     status |-> HEALTH_STATUS_HEALTHY]

DependencyCheck(service, reachable) ==
    [service |-> service, reachable |-> reachable, status |-> HEALTH_STATUS_HEALTHY]

----------------------------------------------------------------------------
(* Bounds of the health model *)

MaxChecks == 2         \* longest HealthCheck array drawn as an input
MaxDeps == 1           \* longest DependencyCheck array drawn as an input

\* Values and threshold pairs <<warning, critical>> of the drawn checks: a value
\* below, at, between and above the thresholds; pairs in both orders and equal.
CheckValues == {0, 1, 2, 3, 4}
ThresholdPairs == {<<3, 1>>, <<1, 3>>, <<2, 2>>}

InputChecks ==
    {HealthCheck("check", v, p[1], p[2], ty) :
        v \in CheckValues, p \in ThresholdPairs, ty \in ThresholdType}

InputDeps == {DependencyCheck("dep", r) : r \in BOOLEAN}

SeqsUpTo(S, n) == UNION {[1..k -> S] : k \in 0..n}

----------------------------------------------------------------------------
(* health.c *)

\* Fault: the comparisons include the threshold itself.
calculate_check_status_lax(check) ==
    IF check.threshold_type = THRESHOLD_TYPE_LOWER_BAD
    THEN IF check.value <= check.critical_threshold THEN HEALTH_STATUS_UNHEALTHY
         ELSE IF check.value <= check.warning_threshold THEN HEALTH_STATUS_DEGRADED
         ELSE HEALTH_STATUS_HEALTHY
    ELSE IF check.value >= check.critical_threshold THEN HEALTH_STATUS_UNHEALTHY
         ELSE IF check.value >= check.warning_threshold THEN HEALTH_STATUS_DEGRADED
         ELSE HEALTH_STATUS_HEALTHY

\* calculate_check_status, for a non-null check (calculate_overall_status
\* passes the address of an array element).
calculate_check_status(check) ==
    IF check.threshold_type = THRESHOLD_TYPE_LOWER_BAD
    THEN IF check.value < check.critical_threshold THEN HEALTH_STATUS_UNHEALTHY
         ELSE IF check.value < check.warning_threshold THEN HEALTH_STATUS_DEGRADED
         ELSE HEALTH_STATUS_HEALTHY
    ELSE IF check.value > check.critical_threshold THEN HEALTH_STATUS_UNHEALTHY
         ELSE IF check.value > check.warning_threshold THEN HEALTH_STATUS_DEGRADED
         ELSE HEALTH_STATUS_HEALTHY

(* The first loop of calculate_overall_status, from index i on: cs is the   *)
(* array so far (statuses assigned below i), overall the running maximum.  *)
RECURSIVE ChecksLoop(_, _, _)
ChecksLoop(cs, i, overall) ==
    IF i > Len(cs) THEN [checks |-> cs, overall |-> overall]
    ELSE LET st == calculate_check_status(cs[i])
         IN  ChecksLoop([cs EXCEPT ![i].status = st], i + 1,
                        IF st > overall THEN st ELSE overall)

\* Fault: an unreachable dependency is Unhealthy.
dependency_status_unreachable_unhealthy(dep) ==
    IF dep.reachable THEN HEALTH_STATUS_HEALTHY ELSE HEALTH_STATUS_UNHEALTHY

\* The status calculate_overall_status assigns to a dependency.
dependency_status(dep) ==
    IF dep.reachable THEN HEALTH_STATUS_HEALTHY ELSE HEALTH_STATUS_DEGRADED

(* The second loop of calculate_overall_status. *)
RECURSIVE DepsLoop(_, _, _)
DepsLoop(ds, i, overall) ==
    IF i > Len(ds) THEN [deps |-> ds, overall |-> overall]
    ELSE LET st == dependency_status(ds[i])
         IN  DepsLoop([ds EXCEPT ![i].status = st], i + 1,
                      IF st > overall THEN st ELSE overall)

\* Fault: the overall status is the status of the last item, not the maximum.
calculate_overall_status_last(cs, ds) ==
    LET c == ChecksLoop(cs, 1, HEALTH_STATUS_HEALTHY)
        d == DepsLoop(ds, 1, HEALTH_STATUS_HEALTHY)
    IN  [checks |-> c.checks, deps |-> d.deps,
         overall |-> IF Len(ds) > 0 THEN d.deps[Len(ds)].status
                     ELSE IF Len(cs) > 0 THEN c.checks[Len(cs)].status
                     ELSE HEALTH_STATUS_HEALTHY]

(* calculate_overall_status: the arrays with every status assigned, and the *)
(* returned overall status.                                                *)
calculate_overall_status(cs, ds) ==
    LET c == ChecksLoop(cs, 1, HEALTH_STATUS_HEALTHY)
        d == DepsLoop(ds, 1, c.overall)
    IN  [checks |-> c.checks, deps |-> d.deps, overall |-> d.overall]
(* The collectors of generate_health_report, as functions of what the       *)
(* operating system answered: rd.ok says whether the read produced a       *)
(* number, rd.value is that number.                                        *)
get_memory_info(rd) == IF rd.ok THEN [rc |-> 0, available_mb |-> rd.value]
                       ELSE [rc |-> -1, available_mb |-> 0]

get_disk_stats(rd) == IF rd.ok THEN [rc |-> 0, free_mb |-> rd.value]
                      ELSE [rc |-> -1, free_mb |-> 0]

get_temperature(rd) == IF rd.ok THEN rd.value ELSE -1

check_i2c_bus_available(opened) == opened

(* generate_health_report: the four checks and the one dependency it       *)
(* builds in its static arrays, and the overall status it stores.          *)
generate_health_report(mem, disk, temp, i2c) ==
    LET m == get_memory_info(mem)
        d == get_disk_stats(disk)
        c1 == HealthCheck("memory_available_mb",
                          IF m.rc = 0 THEN m.available_mb ELSE -1,
                          50, 20, THRESHOLD_TYPE_LOWER_BAD)
        c2 == HealthCheck("disk_free_mb",
                          IF d.rc = 0 THEN d.free_mb ELSE -1,
                          100, 50, THRESHOLD_TYPE_LOWER_BAD)
        c3 == HealthCheck("temperature_celsius", get_temperature(temp),
                          70, 80, THRESHOLD_TYPE_HIGHER_BAD)
        c4 == HealthCheck("cpu_usage_percent", 0,
                          80, 95, THRESHOLD_TYPE_HIGHER_BAD)
        dep == DependencyCheck("i2c-bus-0", check_i2c_bus_available(i2c))
    IN  calculate_overall_status(<<c1, c2, c3, c4>>, <<dep>>)

----------------------------------------------------------------------------
(* What the operating system may answer to the collectors *)

Readings(S) == {[ok |-> TRUE, value |-> v] : v \in S} \cup {[ok |-> FALSE, value |-> 0]}

MemReadings == Readings({10, 20, 35, 50, 60})
DiskReadings == Readings({40, 50, 75, 100, 120})
TempReadings == Readings({-5, 60, 70, 75, 80, 85})

NoReadings == [mem |-> [ok |-> TRUE, value |-> 0], disk |-> [ok |-> TRUE, value |-> 0],
               temp |-> [ok |-> TRUE, value |-> 0], i2c |-> TRUE]

(* A C pointer: <<>> is NULL, <<s>> points to the object s. *)
NULL == <<>>
Ptr(s) == <<s>>

\* The HealthReport objects a caller of generate_health_report owns.
ReportIds == {1, 2}

\* The static arrays of generate_health_report (health.c:185, 229), as the
\* targets of the pointers report->checks and report->dependencies.
StaticChecks == Ptr("checks")
StaticDeps == Ptr("deps")

\* A HealthReport: checks and dependencies are pointers.  filled_with
\* (history) is what the two arrays held when the report was filled.
HealthReport(service_name, overall, checks_ptr, check_count, deps_ptr, dependency_count, seen) ==
    [service_name |-> service_name, overall_status |-> overall,
     checks |-> checks_ptr, check_count |-> check_count,
     dependencies |-> deps_ptr, dependency_count |-> dependency_count,
     filled_with |-> seen]

NoArrays == [checks |-> <<>>, deps |-> <<>>]

\* A HealthReport the caller has not handed to generate_health_report yet.
BlankReport == HealthReport("", HEALTH_STATUS_HEALTHY, NULL, 0, NULL, 0, NoArrays)

NoReports == [r \in ReportIds |-> BlankReport]

----------------------------------------------------------------------------
(* vapix.h, vapix.c: data *)

\* The threads that call get_cached_temperature and get_cached_device_info.
Threads == {1, 2}
NoThread == 0

\* The instants at which the model looks at the clock.  They put a call one
\* second before and exactly at the end of a ttl of either cache: 299 and 300
\* are 59 s and 60 s after 240, and 299 s and 300 s after 0.  The clock never
\* runs backwards.
ClockValues == {0, 240, 299, 300}

(* Text is a sequence of characters; Str(c, n) is n times the character c. *)
Str(c, n) == [i \in 1..n |-> c]

Min(a, b) == IF a < b THEN a ELSE b

(* snprintf(dst, size, "%s", s): at most size - 1 characters of s. *)
snprintf(size, s) == SubSeq(s, 1, Min(Len(s), size - 1))

ZeroDeviceInfo ==
    [serial_number |-> <<>>, firmware_version |-> <<>>, model |-> <<>>,
     architecture |-> <<>>, soc |-> <<>>]

DeviceInfoFields == {"serial_number", "firmware_version", "model", "architecture", "soc"}

(* The JSON key of the response that fills each DeviceInfo field. *)
JsonKey(field) ==
    CASE field = "serial_number" -> "SerialNumber"
      [] field = "firmware_version" -> "Version"
      [] field = "model" -> "ProdNbr"
      [] field = "architecture" -> "Architecture"
      [] field = "soc" -> "Soc"

(* What the caller's DeviceInfo holds before the call. *)
CallerInfo ==
    [serial_number |-> Str(0, 2), firmware_version |-> Str(0, 2), model |-> Str(0, 2),
     architecture |-> Str(0, 2), soc |-> Str(0, 2)]

----------------------------------------------------------------------------
(* What the device may answer *)

\* The body of a temperature reply: nothing, text that is no number, or a number.
TempBodies ==
    {[kind |-> "empty", number |-> 0], [kind |-> "text", number |-> 0]}
    \cup {[kind |-> "number", number |-> n] : n \in {-5, 0, 45}}

\* The propertyList objects of a device-info reply: each carries some of the
\* five fields and lacks the others (between the two, every field is carried
\* once and lacked once), and each holds one value longer than its destination
\* (70 characters for serial_number[64], 40 for architecture[32]).
PropertyLists ==
    { [SerialNumber |-> Str(1, 70), Version |-> Str(2, 3)],
      [ProdNbr |-> Str(3, 3), Architecture |-> Str(4, 40), Soc |-> Str(5, 3)] }

\* The body of a device-info reply: no JSON, JSON without "data", JSON without
\* "propertyList", or JSON with a propertyList.
InfoBodies ==
    {[kind |-> k, props |-> <<>>] : k \in {"invalid", "nodata", "noplist"}}
    \cup {[kind |-> "plist", props |-> p] : p \in PropertyLists}

\* The outcomes of one request: curl_easy_init fails, curl_easy_perform fails,
\* the device answers with an error status, or it answers 200 with a body.
Replies(Bodies, none) ==
    {[curl |-> c, http_code |-> 0, body |-> none] : c \in {"init_failed", "perform_failed"}}
    \cup {[curl |-> "ok", http_code |-> 500, body |-> none]}
    \cup {[curl |-> "ok", http_code |-> 200, body |-> b] : b \in Bodies}

TempReplies == Replies(TempBodies, [kind |-> "empty", number |-> 0])
InfoReplies == Replies(InfoBodies, [kind |-> "invalid", props |-> <<>>])

----------------------------------------------------------------------------
(* vapix.c: the fetches *)

\* -1.0 when the body holds no number, else the number sscanf reads.
parse_temperature_response(body) ==
    IF body.kind = "empty" THEN -1
    ELSE IF body.kind = "text" THEN -1
    ELSE body.number

\* Fault: every number the device sends is accepted.
vapix_get_temperature_any_number(initialized, reply) ==
    IF ~initialized THEN [rc |-> -1, temperature |-> 0]
    ELSE IF reply.curl # "ok" THEN [rc |-> -1, temperature |-> 0]
    ELSE IF reply.http_code # 200 THEN [rc |-> -1, temperature |-> 0]
    ELSE IF reply.body.kind # "number" THEN [rc |-> -1, temperature |-> 0]
    ELSE [rc |-> 0, temperature |-> reply.body.number]

\* rc is the returned int; temperature is *temperature, written only when rc = 0.
vapix_get_temperature(initialized, reply) ==
    IF ~initialized THEN [rc |-> -1, temperature |-> 0]
    ELSE IF reply.curl # "ok" THEN [rc |-> -1, temperature |-> 0]
    ELSE IF reply.http_code # 200 THEN [rc |-> -1, temperature |-> 0]
    ELSE LET temp == parse_temperature_response(reply.body)
         IN  IF temp < 0 THEN [rc |-> -1, temperature |-> 0]
             ELSE [rc |-> 0, temperature |-> temp]

\* json_string_value(json_object_get(property_list, key)): NULL when absent.
JsonString(props, key) ==
    IF key \in DOMAIN props THEN [null |-> FALSE, s |-> props[key]]
    ELSE [null |-> TRUE, s |-> <<>>]

\* rc is the returned int, info is *info after the call.
parse_device_info_response(body, info) ==
    IF body.kind \in {"invalid", "nodata", "noplist"} THEN [rc |-> -1, info |-> info]
    ELSE LET serial == JsonString(body.props, "SerialNumber")
             version == JsonString(body.props, "Version")
             model == JsonString(body.props, "ProdNbr")
             arch == JsonString(body.props, "Architecture")
             soc == JsonString(body.props, "Soc")
         IN  [rc |-> 0,
              info |-> [serial_number |-> IF serial.null THEN info.serial_number
                                          ELSE snprintf(64, serial.s),
                        firmware_version |-> IF version.null THEN info.firmware_version
                                             ELSE snprintf(64, version.s),
                        model |-> IF model.null THEN info.model
                                  ELSE snprintf(64, model.s),
                        architecture |-> IF arch.null THEN info.architecture
                                         ELSE snprintf(32, arch.s),
                        soc |-> IF soc.null THEN info.soc
                                ELSE snprintf(64, soc.s)]]

vapix_get_device_info(initialized, reply, info) ==
    IF ~initialized THEN [rc |-> -1, info |-> info]
    ELSE IF reply.curl # "ok" THEN [rc |-> -1, info |-> info]
    ELSE IF reply.http_code # 200 THEN [rc |-> -1, info |-> info]
    ELSE parse_device_info_response(reply.body, info)

\* The fields of DeviceInfo that a reply does not carry.
AbsentFields(reply) ==
    IF reply.curl = "ok" /\ reply.http_code = 200 /\ reply.body.kind = "plist"
    THEN {f \in DeviceInfoFields : JsonKey(f) \notin DOMAIN reply.body.props}
    ELSE {}

----------------------------------------------------------------------------
(* vapix.c: the caches *)

CachedDouble(value, timestamp, valid) ==
    [value |-> value, timestamp |-> timestamp, valid |-> valid, ttl_seconds |-> 60]

CachedDeviceInfo(value, timestamp, valid) ==
    [value |-> value, timestamp |-> timestamp, valid |-> valid, ttl_seconds |-> 300]

\* Fault: a value exactly one ttl old still counts as fresh.
CacheHit_inclusive(cache, t) ==
    cache.valid /\ (t - cache.timestamp) <= cache.ttl_seconds

\* The test of the fast path: valid and within the ttl at time t.
CacheHit(cache, t) ==
    cache.valid /\ (t - cache.timestamp) < cache.ttl_seconds

\* The frame of a thread that is in no call.  pc is where the thread is:
\*   "idle"            before its first call
\*   "lock1"           at the first pthread_mutex_lock
\*   "check"           holding the mutex, at the test of the fast path
\*   "fetch"           in vapix_get_*, holding nothing
\*   "lock2", "store"  the fetch succeeded: before and in the storing section
\*   "lock3", "stale"  the fetch failed: before and in the stale-serving section
\*   "done"            returned; ret, temperature and info are what the caller sees
\* path (history) says how the call returned; absent (history) are the fields the
\* reply lacked; negative (history) says that the device answered the
\* temperature request of the call with 200 and a negative number.
Frame0 ==
    [pc |-> "idle", fn |-> "none", now |-> 0, rc |-> 0, temp |-> 0,
     fresh_info |-> ZeroDeviceInfo, absent |-> {}, negative |-> FALSE,
     temperature |-> [written |-> FALSE, value |-> 0],
     info |-> [written |-> FALSE, value |-> CallerInfo],
     ret |-> 0, path |-> "none"]

InitCache ==
    /\ now = 0
    /\ g_vapix_initialized = FALSE
    /\ temperature_cache = CachedDouble(0, 0, FALSE)
    /\ device_info_cache = CachedDeviceInfo(ZeroDeviceInfo, 0, FALSE)
    /\ cache_mutex = NoThread
    /\ frame = [t \in Threads |-> Frame0]
    /\ refresh_failed = [temperature |-> FALSE, device_info |-> FALSE]

----------------------------------------------------------------------------
(* log_buffer.h, log_buffer.c: data *)

\* The capacity of the ring.  The program's value is 100 (log_buffer.h:26);
\* the model runs a smaller ring, every index of which is still reached and
\* wrapped around.
MAX_LOG_ENTRIES == 3
MAX_MESSAGE_LENGTH == 256
MAX_SEVERITY_LENGTH == 16

\* The number of log_event calls of a run.
MaxLogCalls == 5

\* The instants at which the log ring looks at the clock.
LogClockValues == {0, 1}

LogEntry(timestamp, severity, message) ==
    [timestamp |-> timestamp, severity |-> severity, message |-> message]

\* static LogBuffer g_log_buffer = {0}, and what memset leaves in it.  The
\* all-zero pthread_mutex_t is an unlocked mutex.
ZeroLogBuffer ==
    [entries |-> [i \in 0..(MAX_LOG_ENTRIES - 1) |-> LogEntry(0, <<>>, <<>>)],
     head |-> 0, count |-> 0, lock |-> NoThread]

\* The arguments of the k-th log_event call: a short severity with a short
\* message, or a severity and a message longer than their fields.  The
\* message names the call.
LogArgs(k) ==
    { [severity |-> Str(1, 4), message |-> Str(10 + k, 2)],
      [severity |-> Str(2, MAX_SEVERITY_LENGTH + 4),
       message |-> Str(10 + k, MAX_MESSAGE_LENGTH + 4)] }

\* Fault: the copy is not bounded.
strcpy(n, src) == src

(* strncpy(dst, src, n); dst[n] = 0: the first n characters of src. *)
strncpy(n, src) == SubSeq(src, 1, Min(Len(src), n))

(* strftime("%Y-%m-%dT%H:%M:%SZ", gmtime(&t)): the text of the second t.  *)
(* Two instants have the same text exactly when they are the same second. *)
Iso8601(t) == <<"iso8601", t>>

(* json_pack("{s:s, s:s, s:s}", ...): the object exported for an entry. *)
LogObject(entry) ==
    [timestamp |-> Iso8601(entry.timestamp), severity |-> entry.severity,
     message |-> entry.message]

LogFrame0 ==
    [pc |-> "idle", fn |-> "none",
     severity |-> <<>>, message |-> <<>>,      \* log_event: the arguments
     entry |-> 0,                             \* log_event: the slot entry points to
     stamp |-> 0,                             \* log_event: what time(NULL) returned
     forwarded |-> <<>>,                      \* log_event: the message given to syslog
     max_entries |-> 0, entries_to_export |-> 0, start_idx |-> 0, i |-> 0,
     logs_array |-> <<>>,                     \* get_recent_logs_limited: the caller's array
     given |-> <<>>]                          \* the caller's array as it was at the call (history)

InitLogBuffer ==
    /\ g_log_buffer = ZeroLogBuffer
    /\ g_log_buffer_initialized = FALSE
    /\ lframe = [t \in Threads |-> LogFrame0]
    /\ log_calls = 0
    /\ appended = <<>>

----------------------------------------------------------------------------
(* http_server.h, http_server.c: data and pure functions *)

(* A request is a sequence of bytes.  The model writes a byte that is      *)
(* neither a space, a line end nor a zero as the word it belongs to: the    *)
(* code never looks inside such a word, it only splits at spaces and line   *)
(* ends, compares whole words and counts bytes; a word counts as one byte.  *)
SP == " "
CRLF == "CRLF"
NUL == "NUL"

(* The string a char* designates: the bytes before the first zero byte. *)
CStr(bytes) ==
    IF \E i \in 1..Len(bytes) : bytes[i] = NUL
    THEN SubSeq(bytes, 1, (CHOOSE i \in 1..Len(bytes) :
                              bytes[i] = NUL /\ \A j \in 1..(i - 1) : bytes[j] # NUL) - 1)
    ELSE bytes

\* strstr for a one-byte needle: the index of its first occurrence, 0 if none.
IndexOf(s, d) ==
    IF \E i \in 1..Len(s) : s[i] = d
    THEN CHOOSE i \in 1..Len(s) : s[i] = d /\ \A j \in 1..(i - 1) : s[j] # d
    ELSE 0

(* g_strsplit(string, delimiter, max_tokens) of GLib: the tokens between    *)
(* the delimiters; the empty string gives the empty vector; when            *)
(* max_tokens is reached the remainder is the last token; max_tokens = 0    *)
(* stands for "no limit" (the code passes -1).                              *)
RECURSIVE SplitRemainder(_, _, _)
SplitRemainder(s, d, max_tokens) ==
    LET i == IndexOf(s, d)
    IN  IF max_tokens = 1 \/ i = 0
        THEN <<s>>
        ELSE <<SubSeq(s, 1, i - 1)>> \o
             SplitRemainder(SubSeq(s, i + 1, Len(s)), d,
                            IF max_tokens = 0 THEN 0 ELSE max_tokens - 1)

g_strsplit(s, d, max_tokens) == IF s = <<>> THEN <<>> ELSE SplitRemainder(s, d, max_tokens)

(* atoi: leading spaces are skipped, then a number with its sign is read;   *)
(* anything else is 0.                                                      *)
Numerals == [n \in {"0", "1", "2", "3", "-1"} |->
                CASE n = "0" -> 0 [] n = "1" -> 1 [] n = "2" -> 2 [] n = "3" -> 3
                  [] n = "-1" -> -1]

RECURSIVE atoi(_)
atoi(s) ==
    IF s = <<>> THEN 0
    ELSE IF Head(s) = SP THEN atoi(Tail(s))
    ELSE IF Head(s) \in DOMAIN Numerals THEN Numerals[Head(s)]
    ELSE 0

\* lines 132-137: the value of the last Content-Length header before the
\* first empty line, 0 when there is none.
RECURSIVE ContentLength(_, _, _)
ContentLength(lines, i, content_length) ==
    IF i > Len(lines) \/ lines[i] = <<>>
    THEN content_length
    ELSE ContentLength(lines, i + 1,
                       IF Head(lines[i]) = "Content-Length:"
                       THEN atoi(Tail(lines[i])) ELSE content_length)

\* strstr(buffer, "\r\n\r\n") + 4: the index of the first byte after the
\* first empty line, 0 when there is no empty line.
BodyStart(text) ==
    IF \E i \in 1..(Len(text) - 1) : text[i] = CRLF /\ text[i + 1] = CRLF
    THEN (CHOOSE i \in 1..(Len(text) - 1) :
             /\ text[i] = CRLF /\ text[i + 1] = CRLF
             /\ \A j \in 1..(i - 1) : ~(text[j] = CRLF /\ text[j + 1] = CRLF)) + 2
    ELSE 0

(* g_strndup(str, n): the first n bytes of the string, fewer when it is shorter. *)
g_strndup(str, n) == SubSeq(str, 1, Min(Len(str), n))

HttpRequest(method, path, body, body_len) ==
    [crashed |-> FALSE, method |-> method, path |-> path, body |-> body, body_len |-> body_len]

\* Fault: the body is taken without testing content_length.
parse_request_any_length(buffer) ==
    LET text == CStr(buffer)
        lines == g_strsplit(text, CRLF, 0)
    IN  IF lines = <<>>
        THEN [crashed |-> TRUE, method |-> NULL, path |-> NULL, body |-> NULL, body_len |-> 0]
        ELSE LET request_line == g_strsplit(lines[1], SP, 3)
                 both == Len(request_line) >= 2
                 content_length == ContentLength(lines, 2, 0)
                 body_start == BodyStart(text)
                 has_body == body_start > 0
             IN  IF has_body /\ content_length < 0
                 THEN [crashed |-> TRUE, method |-> NULL, path |-> NULL, body |-> NULL,
                       body_len |-> 0]
                 ELSE
                 HttpRequest(IF both THEN Ptr(request_line[1]) ELSE NULL,
                             IF both THEN Ptr(request_line[2]) ELSE NULL,
                             IF has_body
                             THEN Ptr(g_strndup(SubSeq(text, body_start, Len(text)), content_length))
                             ELSE NULL,
                             IF has_body THEN content_length ELSE 0)

(* parse_request.  g_strsplit of the empty string has no first line:       *)
(* lines[0] is NULL, g_strsplit(NULL, ...) fails its precondition and      *)
(* returns NULL, and request_line[0] dereferences the null pointer, which  *)
(* ends the process (SIGSEGV).  content_length is a gsize: a negative      *)
(* value of atoi becomes a number above any buffer size, and g_strndup     *)
(* with it cannot allocate (it aborts, or copies to a null pointer), which *)
(* ends the process too.                                                   *)
parse_request(buffer) ==
    LET text == CStr(buffer)
        lines == g_strsplit(text, CRLF, 0)
    IN  IF lines = <<>>
        THEN [crashed |-> TRUE, method |-> NULL, path |-> NULL, body |-> NULL, body_len |-> 0]
        ELSE LET request_line == g_strsplit(lines[1], SP, 3)
                 both == Len(request_line) >= 2
                 content_length == ContentLength(lines, 2, 0)
                 body_start == BodyStart(text)
                 has_body == content_length # 0 /\ body_start > 0
             IN  IF has_body /\ content_length < 0
                 THEN [crashed |-> TRUE, method |-> NULL, path |-> NULL, body |-> NULL,
                       body_len |-> 0]
                 ELSE
                 HttpRequest(IF both THEN Ptr(request_line[1]) ELSE NULL,
                             IF both THEN Ptr(request_line[2]) ELSE NULL,
                             IF has_body
                             THEN Ptr(g_strndup(SubSeq(text, body_start, Len(text)), content_length))
                             ELSE NULL,
                             IF has_body THEN content_length ELSE 0)

NoRequest == HttpRequest(NULL, NULL, NULL, 0)

HandlerEntry(path, handler) == [path |-> path, handler |-> handler]

\* Fault: the loop does not stop at the first match, the last entry wins.
FindHandler_last(handlers, path) ==
    LET hits == {i \in 1..Len(handlers) : Ptr(handlers[i].path) = path}
    IN  IF hits = {} THEN 0 ELSE CHOOSE i \in hits : \A j \in hits : i >= j

\* lines 191-198: the first entry whose path equals the request path, 0 if none.
FindHandler(handlers, path) ==
    LET hits == {i \in 1..Len(handlers) : Ptr(handlers[i].path) = path}
    IN  IF hits = {} THEN 0 ELSE CHOOSE i \in hits : \A j \in hits : i <= j

\* http_server_new.
http_server_new ==
    [server_fd |-> -1, running |-> FALSE, handlers |-> <<>>]

\* http_server_add_handler.
http_server_add_handler(srv, path, handler) ==
    [srv EXCEPT !.handlers = Append(@, HandlerEntry(path, handler))]

\* http_server_stop, given a non-null server.
http_server_stop(srv) == [srv EXCEPT !.running = FALSE]

\* The descriptors socket(), open() and accept() return.
ListenFd == 3
DeviceFd == 4
ClientFd(n) == 10 + n

\* What can happen in http_server_start.
StartOutcomes == {"socket fails", "bind fails", "listen fails", "listening"}

\* Fault: a failed bind leaves the socket open.
http_server_start_leak(srv, outcome) ==
    CASE outcome = "socket fails" ->
            [server |-> [srv EXCEPT !.server_fd = -1], opened |-> {}, ret |-> FALSE,
             log |-> "Failed to create socket"]
      [] outcome = "bind fails" ->
            [server |-> [srv EXCEPT !.server_fd = ListenFd], opened |-> {ListenFd}, ret |-> FALSE,
             log |-> "Failed to bind to port"]
      [] outcome = "listen fails" ->
            [server |-> [srv EXCEPT !.server_fd = -1], opened |-> {}, ret |-> FALSE,
             log |-> "Failed to listen on port"]
      [] outcome = "listening" ->
            [server |-> [srv EXCEPT !.server_fd = ListenFd, !.running = TRUE],
             opened |-> {ListenFd}, ret |-> TRUE, log |-> "HTTP server listening on port"]

\* http_server_start: the server afterwards, the descriptors it leaves open,
\* the value it returns and the line it writes to the process log.  socket()
\* returns -1 when it fails; after a failed bind or listen the socket is
\* closed and server_fd is set to -1.
http_server_start(srv, outcome) ==
    CASE outcome = "socket fails" ->
            [server |-> [srv EXCEPT !.server_fd = -1], opened |-> {}, ret |-> FALSE,
             log |-> "Failed to create socket"]
      [] outcome = "bind fails" ->
            [server |-> [srv EXCEPT !.server_fd = -1], opened |-> {}, ret |-> FALSE,
             log |-> "Failed to bind to port"]
      [] outcome = "listen fails" ->
            [server |-> [srv EXCEPT !.server_fd = -1], opened |-> {}, ret |-> FALSE,
             log |-> "Failed to listen on port"]
      [] outcome = "listening" ->
            [server |-> [srv EXCEPT !.server_fd = ListenFd, !.running = TRUE],
             opened |-> {ListenFd}, ret |-> TRUE, log |-> "HTTP server listening on port"]

\* The number of connections a run accepts.
MaxConnections == 2

Proc0 ==
    [program |-> "none", pc |-> "boot", start_ret |-> FALSE, exit_status |-> -1,
     client_fd |-> -1, buffer |-> <<>>, req |-> NoRequest, handler |-> "none",
     stopped_at |-> "never",     \* where main was when http_server_stop first
                                 \* cleared a set flag (history)
     handled |-> 0]              \* the number of requests dispatched (history)

Conn0 == [closes |-> 0, responses |-> <<>>, bodies |-> <<>>, invoked |-> <<>>]

InitHttpServer ==
    /\ server = NULL
    /\ lrf_device = NULL
    /\ proc = Proc0
    /\ os = [fds |-> {}, syslog |-> {}, accepted |-> 0, lrf_failures |-> 0]
    /\ conn = Conn0
    /\ g_http_requests_total = 0

----------------------------------------------------------------------------
(* metrics_helpers.h, metrics_helpers.c, metrics.c: data and pure functions *)

\* The counters of CPUStats are uint64_t.  The model keeps the wrap-around
\* of unsigned arithmetic with a narrower word (the program has 64 bits).
CounterBits == 6
Word == 2 ^ CounterBits
Wrap(x) == x % Word

CPUStats(user, nice, system, idle, iowait, irq, softirq, steal) ==
    [user |-> user, nice |-> nice, system |-> system, idle |-> idle,
     iowait |-> iowait, irq |-> irq, softirq |-> softirq, steal |-> steal]

ZeroCpuStats == CPUStats(0, 0, 0, 0, 0, 0, 0, 0)

\* A double that is the quotient of two counters: num / den, den > 0.
\* The conversion of a counter to double is monotone, so comparisons of
\* quotients with 0 and 100 are those of the exact quotients.
Quotient(num, den) == [num |-> num, den |-> den]

IdleOf(st) == Wrap(st.idle + st.iowait)

TotalOf(st) ==
    Wrap(st.user + st.nice + st.system + st.idle + st.iowait + st.irq + st.softirq + st.steal)

\* calculate_cpu_usage: -1 for a null pointer, 0 when the total did not
\* change, else 100 * (total_diff - idle_diff) / total_diff, every
\* difference computed in unsigned arithmetic.
calculate_cpu_usage(prev, curr) ==
    IF prev = NULL \/ curr = NULL THEN Quotient(-1, 1)
    ELSE LET total_diff == Wrap(TotalOf(curr[1]) - TotalOf(prev[1]))
             idle_diff == Wrap(IdleOf(curr[1]) - IdleOf(prev[1]))
         IN  IF total_diff = 0 THEN Quotient(0, 1)
             ELSE Quotient(100 * Wrap(total_diff - idle_diff), total_diff)

\* What the collaborators of metrics_handler answer to one request: each
\* succeeds or fails; get_cpu_stats delivers a sample when it succeeds
\* (NULL stands for its failure); the network metrics need the interface
\* name and then its counters.
HandlerCpuSamples ==
    {CPUStats(1, 0, 0, 1, 0, 0, 0, 0), CPUStats(3, 0, 0, 2, 0, 0, 0, 0)}

Collaborators ==
    [uptime : BOOLEAN, memory : BOOLEAN, load : BOOLEAN,
     cpu : {NULL} \cup {Ptr(st) : st \in HandlerCpuSamples},
     network : {"no interface", "no counters", "ok"},
     disk : BOOLEAN, processes : BOOLEAN, temperature : BOOLEAN]

AppendIf(cond, output, names) == IF cond THEN output \o names ELSE output

WarnIf(cond, warnings, text) == IF cond THEN warnings \cup {text} ELSE warnings

\* Fault: a failed memory read ends the collection of the system metrics.
collect_system_metrics_stops(out, o, statics) ==
    LET o1 == AppendIf(o.uptime, out.output, <<"ptz_uptime_seconds">>)
        o2 == AppendIf(o.memory, o1,
                       <<"ptz_memory_total_bytes", "ptz_memory_available_bytes">>)
        o3 == AppendIf(o.load, o2, <<"ptz_load_average_1m">>)
        usage == calculate_cpu_usage(Ptr(statics.prev_cpu), o.cpu)
        rendered == o.cpu # NULL /\ ~statics.first_sample /\ usage.num >= 0
        o4 == AppendIf(rendered, o3, <<"ptz_cpu_usage_percent">>)
    IN  IF ~o.memory
        THEN [output |-> o1, warnings |-> out.warnings, cpu_usage |-> out.cpu_usage,
              statics |-> statics]
        ELSE [output |-> o4, warnings |-> out.warnings,
              cpu_usage |-> IF rendered THEN usage ELSE out.cpu_usage,
              statics |-> IF o.cpu # NULL
                          THEN [prev_cpu |-> o.cpu[1], first_sample |-> FALSE]
                          ELSE statics]

\* collect_system_metrics: uptime, memory, load average, and the CPU usage
\* since the previous successful sample, which the statics keep.
collect_system_metrics(out, o, statics) ==
    LET o1 == AppendIf(o.uptime, out.output, <<"ptz_uptime_seconds">>)
        o2 == AppendIf(o.memory, o1,
                       <<"ptz_memory_total_bytes", "ptz_memory_available_bytes">>)
        o3 == AppendIf(o.load, o2, <<"ptz_load_average_1m">>)
        usage == calculate_cpu_usage(Ptr(statics.prev_cpu), o.cpu)
        rendered == o.cpu # NULL /\ ~statics.first_sample /\ usage.num >= 0
        o4 == AppendIf(rendered, o3, <<"ptz_cpu_usage_percent">>)
        w1 == WarnIf(~o.uptime, out.warnings, "Failed to collect uptime metric")
        w2 == WarnIf(~o.memory, w1, "Failed to collect memory metrics")
        w3 == WarnIf(~o.load, w2, "Failed to collect load average metric")
        w4 == WarnIf(o.cpu = NULL, w3, "Failed to collect CPU stats")
    IN  [output |-> o4, warnings |-> w4,
         cpu_usage |-> IF rendered THEN usage ELSE out.cpu_usage,
         statics |-> IF o.cpu # NULL
                     THEN [prev_cpu |-> o.cpu[1], first_sample |-> FALSE]
                     ELSE statics]

\* collect_network_metrics.
collect_network_metrics(out, o) ==
    [out EXCEPT
       !.output = AppendIf(o.network = "ok", @,
                           <<"ptz_network_rx_bytes_total", "ptz_network_tx_bytes_total">>),
       !.warnings = WarnIf(o.network = "no counters",
                           WarnIf(o.network = "no interface", @,
                                  "Failed to detect primary network interface"),
                           "Failed to collect network stats")]

\* collect_disk_metrics.
collect_disk_metrics(out, o) ==
    [out EXCEPT
       !.output = AppendIf(o.disk, @, <<"ptz_disk_total_bytes", "ptz_disk_free_bytes">>),
       !.warnings = WarnIf(~o.disk, @, "Failed to collect disk stats")]

\* collect_service_metrics: the two counters, then the process count.
collect_service_metrics(out, o, requests_total) ==
    [out EXCEPT
       !.output = AppendIf(o.processes,
                           @ \o <<"ptz_http_requests_total", "ptz_i2c_errors_total">>,
                           <<"ptz_process_count">>),
       !.http_requests_total = requests_total,
       !.warnings = WarnIf(~o.processes, @, "Failed to collect process count")]

\* collect_vapix_metrics: get_cached_temperature returned 0 or not.
collect_vapix_metrics(out, o) ==
    [out EXCEPT !.output = AppendIf(o.temperature, @, <<"ptz_temperature_celsius">>)]

\* g_string_new("") and what is known of the rendering so far.
EmptyMetrics ==
    [output |-> <<>>, warnings |-> {}, cpu_usage |-> Quotient(-1, 1), http_requests_total |-> -1]

NoCollaborators ==
    [uptime |-> FALSE, memory |-> FALSE, load |-> FALSE, cpu |-> NULL,
     network |-> "no interface", disk |-> FALSE, processes |-> FALSE, temperature |-> FALSE]

\* status 0: nothing was written yet.  method, answered and sampled_before
\* record the request, what the collaborators answered to it and whether
\* an earlier request had obtained a CPU sample.
NoMetricsResponse ==
    [status |-> 0, metrics |-> EmptyMetrics, method |-> NULL, answered |-> NoCollaborators,
     sampled_before |-> FALSE]

NoCpuCall == [pc |-> "idle", prev |-> NULL, curr |-> NULL, usage |-> Quotient(0, 1)]

InitMetrics ==
    /\ cpu_statics = [prev_cpu |-> ZeroCpuStats, first_sample |-> TRUE]
    /\ metrics_response = NoMetricsResponse
    /\ cpu_call = NoCpuCall

\* The components other than the health engine and the cache, at rest.
InitOther == InitLogBuffer /\ InitHttpServer /\ InitMetrics

----------------------------------------------------------------------------
(* The health engine as a state machine.  A run either hands one drawn pair *)
(* of arrays to calculate_overall_status (hpc = "input"), or is the server, *)
(* whose health handler calls generate_health_report again and again on    *)
(* its static arrays (hpc = "boot", then "report").                        *)

InitHealth ==
    /\ InitCache
    /\ InitOther
    /\ collected = NoReadings
    /\ reports = NoReports
    /\ overall_status = HEALTH_STATUS_HEALTHY
    /\ \/ /\ hpc = "input"
          /\ checks \in SeqsUpTo(InputChecks, MaxChecks)
          /\ deps \in SeqsUpTo(InputDeps, MaxDeps)
       \/ /\ hpc = "boot"
          /\ checks = <<>>
          /\ deps = <<>>

CalcOverall ==
    /\ hpc = "input"
    /\ LET r == calculate_overall_status(checks, deps)
       IN  /\ checks' = r.checks
           /\ deps' = r.deps
           /\ overall_status' = r.overall
    /\ hpc' = "evaluated"
    /\ UNCHANGED <<collected, reports, cacheVars, otherVars>>

GenerateHealthReport ==
    /\ hpc \in {"boot", "report"}
    /\ \E mem \in MemReadings, disk \in DiskReadings, temp \in TempReadings, i2c \in BOOLEAN :
          LET r == generate_health_report(mem, disk, temp, i2c)
          IN  /\ checks' = r.checks
              /\ deps' = r.deps
              /\ overall_status' = r.overall
              /\ collected' = [mem |-> mem, disk |-> disk, temp |-> temp, i2c |-> i2c]
    /\ hpc' = "report"
    /\ UNCHANGED <<reports, cacheVars, otherVars>>

NextHealth == CalcOverall \/ GenerateHealthReport

SpecHealth == InitHealth /\ [][NextHealth]_vars

\* The readings a caller that keeps its reports can see.
ReportReadings ==
    {[mem |-> m, disk |-> [ok |-> TRUE, value |-> 120], temp |-> t, i2c |-> c] :
        m \in Readings({10, 60}), t \in Readings({60, 85}), c \in BOOLEAN}

\* generate_health_report(report) for a report the caller keeps: the static
\* arrays are filled and evaluated, and the report gets pointers to them,
\* the counts and the overall status (health.c:176-237).
GenerateHealthReportInto(r) ==
    /\ hpc \in {"boot", "report"}
    /\ \E rd \in ReportReadings :
          LET g == generate_health_report(rd.mem, rd.disk, rd.temp, rd.i2c)
          IN  /\ checks' = g.checks
              /\ deps' = g.deps
              /\ overall_status' = g.overall
              /\ collected' = rd
              /\ reports' = [reports EXCEPT ![r] =
                                HealthReport("axis-lh-server", g.overall,
                                             StaticChecks, Len(g.checks),
                                             StaticDeps, Len(g.deps),
                                             [checks |-> g.checks, deps |-> g.deps])]
    /\ hpc' = "report"
    /\ UNCHANGED <<cacheVars, otherVars>>

InitReportsSpec ==
    /\ InitCache
    /\ InitOther
    /\ checks = <<>>
    /\ deps = <<>>
    /\ overall_status = HEALTH_STATUS_HEALTHY
    /\ hpc = "boot"
    /\ collected = NoReadings
    /\ reports = NoReports

NextReports == \E r \in ReportIds : GenerateHealthReportInto(r)

SpecReports == InitReportsSpec /\ [][NextReports]_vars

----------------------------------------------------------------------------
(* Claims about the health engine *)

Evaluated == hpc \in {"evaluated", "report"}

OrderedThresholds(c) ==
    IF c.threshold_type = THRESHOLD_TYPE_LOWER_BAD
    THEN c.critical_threshold <= c.warning_threshold
    ELSE c.warning_threshold <= c.critical_threshold

StatusByClaim(c) ==
    IF c.threshold_type = THRESHOLD_TYPE_LOWER_BAD
    THEN /\ (c.status = HEALTH_STATUS_UNHEALTHY) <=> (c.value < c.critical_threshold)
         /\ (c.status = HEALTH_STATUS_DEGRADED) <=>
                (c.critical_threshold <= c.value /\ c.value < c.warning_threshold)
         /\ (c.status = HEALTH_STATUS_HEALTHY) <=> (c.value >= c.warning_threshold)
    ELSE /\ (c.status = HEALTH_STATUS_UNHEALTHY) <=> (c.value > c.critical_threshold)
         /\ (c.status = HEALTH_STATUS_DEGRADED) <=>
                (c.warning_threshold < c.value /\ c.value <= c.critical_threshold)
         /\ (c.status = HEALTH_STATUS_HEALTHY) <=> (c.value <= c.warning_threshold)

\* C1: every evaluated check whose thresholds are ordered for its direction has
\* the status the strict comparisons give: LowerIsBad is Unhealthy iff value <
\* critical, Degraded iff critical <= value < warning, Healthy iff value >=
\* warning; HigherIsBad mirrors it; a value equal to a threshold is on the safe side.
C1_CheckStatus ==
    Evaluated =>
        \A i \in DOMAIN checks : OrderedThresholds(checks[i]) => StatusByClaim(checks[i])

\* C1 witness: an evaluated LowerIsBad check whose value equals its critical
\* threshold (Degraded, not Unhealthy) beside a HigherIsBad check whose value
\* equals its warning threshold (Healthy, not Degraded).
C1_Witness ==
    /\ hpc = "evaluated"
    /\ \E i, j \in DOMAIN checks :
          /\ checks[i].threshold_type = THRESHOLD_TYPE_LOWER_BAD
          /\ checks[i].critical_threshold < checks[i].warning_threshold
          /\ checks[i].value = checks[i].critical_threshold
          /\ checks[i].status = HEALTH_STATUS_DEGRADED
          /\ checks[j].threshold_type = THRESHOLD_TYPE_HIGHER_BAD
          /\ checks[j].warning_threshold < checks[j].critical_threshold
          /\ checks[j].value = checks[j].warning_threshold
          /\ checks[j].status = HEALTH_STATUS_HEALTHY

SetMax(S) == CHOOSE m \in S : \A x \in S : x <= m

Statuses == {checks[i].status : i \in DOMAIN checks} \cup {deps[i].status : i \in DOMAIN deps}

Permuted(s, p) == [i \in DOMAIN s |-> s[p[i]]]

Failed(i) ==
    CASE i = 1 -> ~collected.mem.ok
      [] i = 2 -> ~collected.disk.ok
      [] i = 3 -> ~collected.temp.ok

\* C3: in a report, a measurement whose collector failed (memory, disk or
\* temperature) is Unhealthy, never Healthy.
C3_UnavailableIsUnhealthy ==
    hpc = "report" =>
        \A i \in 1..3 : Failed(i) => checks[i].status = HEALTH_STATUS_UNHEALTHY

\* C4: when the memory collector fails, the report stores -1 for
\* memory_available_mb and its overall status is Unhealthy, whatever the other
\* measurements and the dependency are.
C4_MemoryFailureUnhealthy ==
    (hpc = "report" /\ ~collected.mem.ok) =>
        /\ checks[1].name = "memory_available_mb"
        /\ checks[1].value = -1
        /\ overall_status = HEALTH_STATUS_UNHEALTHY

\* C4 witness: a report built with a failed memory collector while disk and
\* temperature are fine and the bus is reachable.
C4_Witness ==
    /\ hpc = "report"
    /\ ~collected.mem.ok
    /\ collected.disk.ok /\ collected.disk.value >= 100
    /\ collected.temp.ok /\ collected.temp.value <= 70
    /\ collected.i2c
    /\ checks[2].status = HEALTH_STATUS_HEALTHY
    /\ checks[3].status = HEALTH_STATUS_HEALTHY
    /\ deps[1].status = HEALTH_STATUS_HEALTHY

\* C5: a dependency is Healthy when reachable and Degraded otherwise, never
\* Unhealthy; with every check Healthy and some dependency unreachable the
\* overall status is exactly Degraded; the overall status is Unhealthy only if
\* some check is Unhealthy.
C5_DependencyNeverUnhealthy ==
    Evaluated =>
        /\ \A i \in DOMAIN deps :
              /\ deps[i].status # HEALTH_STATUS_UNHEALTHY
              /\ deps[i].status = IF deps[i].reachable THEN HEALTH_STATUS_HEALTHY
                                  ELSE HEALTH_STATUS_DEGRADED
        /\ ( /\ \A i \in DOMAIN checks : checks[i].status = HEALTH_STATUS_HEALTHY
             /\ \E i \in DOMAIN deps : ~deps[i].reachable )
           => overall_status = HEALTH_STATUS_DEGRADED
        /\ overall_status = HEALTH_STATUS_UNHEALTHY
           => \E i \in DOMAIN checks : checks[i].status = HEALTH_STATUS_UNHEALTHY

\* C5 witness: a report whose four checks are Healthy and whose bus is
\* unreachable: overall Degraded.
C5_Witness ==
    /\ hpc = "report"
    /\ \A i \in DOMAIN checks : checks[i].status = HEALTH_STATUS_HEALTHY
    /\ ~deps[1].reachable
    /\ overall_status = HEALTH_STATUS_DEGRADED

----------------------------------------------------------------------------
(* The cached accessor as a state machine: each thread calls                *)
(* get_cached_temperature or get_cached_device_info again and again; a     *)
(* step is a critical section of cache_mutex or what a thread does between *)
(* two of them.                                                            *)

\* vapix_init: nothing when already initialized; else initialized when the
\* credentials could be acquired.
VapixInit ==
    /\ ~g_vapix_initialized
    /\ \E acquired \in BOOLEAN : g_vapix_initialized' = acquired
    /\ UNCHANGED <<healthVars, otherVars, now, temperature_cache, device_info_cache,
                   cache_mutex, frame, refresh_failed>>

\* vapix_cleanup
VapixCleanup ==
    /\ g_vapix_initialized
    /\ g_vapix_initialized' = FALSE
    /\ UNCHANGED <<healthVars, otherVars, now, temperature_cache, device_info_cache,
                   cache_mutex, frame, refresh_failed>>

\* Time passes.
Tick ==
    /\ \E c \in ClockValues : c > now /\ now' = c
    /\ UNCHANGED <<healthVars, otherVars, g_vapix_initialized, temperature_cache, device_info_cache,
                   cache_mutex, frame, refresh_failed>>

\* A thread enters get_cached_temperature or get_cached_device_info; with a
\* null argument the call returns -1 at once.
Call(t) ==
    /\ frame[t].pc \in {"idle", "done"}
    /\ \E f \in {"temperature", "device_info"}, null \in BOOLEAN :
          frame' = [frame EXCEPT ![t] =
                       IF null
                       THEN [Frame0 EXCEPT !.fn = f, !.pc = "done", !.ret = -1, !.path = "null"]
                       ELSE [Frame0 EXCEPT !.fn = f, !.pc = "lock1"]]
    /\ UNCHANGED <<healthVars, otherVars, now, g_vapix_initialized, temperature_cache,
                   device_info_cache, cache_mutex, refresh_failed>>

\* Fault: the lock is granted even while another thread holds the mutex.
MutexLock_nowait(t) ==
    /\ frame[t].pc \in {"lock1", "lock2", "lock3"}
    /\ cache_mutex' = t
    /\ frame' = [frame EXCEPT ![t].pc = CASE frame[t].pc = "lock1" -> "check"
                                          [] frame[t].pc = "lock2" -> "store"
                                          [] frame[t].pc = "lock3" -> "stale"]
    /\ UNCHANGED <<healthVars, otherVars, now, g_vapix_initialized, temperature_cache,
                   device_info_cache, refresh_failed>>

\* pthread_mutex_lock(&cache_mutex) returns in thread t.
MutexLock(t) ==
    /\ frame[t].pc \in {"lock1", "lock2", "lock3"}
    /\ cache_mutex = NoThread
    /\ cache_mutex' = t
    /\ frame' = [frame EXCEPT ![t].pc = CASE frame[t].pc = "lock1" -> "check"
                                          [] frame[t].pc = "lock2" -> "store"
                                          [] frame[t].pc = "lock3" -> "stale"]
    /\ UNCHANGED <<healthVars, otherVars, now, g_vapix_initialized, temperature_cache,
                   device_info_cache, refresh_failed>>

\* A frame that returns ret by way of path; the locals are gone.
Returned(fr, ret, path) ==
    [fr EXCEPT !.pc = "done", !.ret = ret, !.path = path,
               !.now = 0, !.rc = 0, !.temp = 0, !.fresh_info = ZeroDeviceInfo]

\* Fault: on a miss the thread goes to fetch with the mutex still held.
TempCheck_holding(t) ==
    /\ frame[t].pc = "check" /\ frame[t].fn = "temperature"
    /\ cache_mutex = t
    /\ cache_mutex' = IF CacheHit(temperature_cache, now) THEN NoThread ELSE t
    /\ frame' = [frame EXCEPT ![t] =
                    IF CacheHit(temperature_cache, now)
                    THEN Returned([@ EXCEPT !.temperature =
                                      [written |-> TRUE, value |-> temperature_cache.value]],
                                  0, "hit")
                    ELSE [@ EXCEPT !.pc = "fetch", !.now = now]]
    /\ UNCHANGED <<healthVars, otherVars, now, g_vapix_initialized, temperature_cache,
                   device_info_cache, refresh_failed>>

\* get_cached_temperature, first critical section: read the clock, serve the
\* cache when it is valid and within its ttl, else go and fetch.
TempCheck(t) ==
    /\ frame[t].pc = "check" /\ frame[t].fn = "temperature"
    /\ cache_mutex = t
    /\ cache_mutex' = NoThread
    /\ frame' = [frame EXCEPT ![t] =
                    IF CacheHit(temperature_cache, now)
                    THEN Returned([@ EXCEPT !.temperature =
                                      [written |-> TRUE, value |-> temperature_cache.value]],
                                  0, "hit")
                    ELSE [@ EXCEPT !.pc = "fetch", !.now = now]]
    /\ UNCHANGED <<healthVars, otherVars, now, g_vapix_initialized, temperature_cache,
                   device_info_cache, refresh_failed>>

\* Fault: the result of the fetch is stored whether or not it succeeded.
TempFetched_always(fr, res) ==
    [fr EXCEPT !.pc = "lock2", !.rc = res.rc,
               !.temp = IF res.rc = 0 THEN res.temperature ELSE -1]

\* The branch on the result of vapix_get_temperature(&temp); on failure the
\* local now is not read again.
TempFetched(fr, res) ==
    IF res.rc = 0
    THEN [fr EXCEPT !.pc = "lock2", !.rc = 0, !.temp = res.temperature]
    ELSE [fr EXCEPT !.pc = "lock3", !.rc = res.rc, !.now = 0]

\* The request was sent and the device answered 200 with a negative number.
NegativeNumber(initialized, reply) ==
    /\ initialized
    /\ reply.curl = "ok" /\ reply.http_code = 200
    /\ reply.body.kind = "number" /\ reply.body.number < 0

\* get_cached_temperature, outside the mutex: the fetch returns.
TempFetch(t) ==
    /\ frame[t].pc = "fetch" /\ frame[t].fn = "temperature"
    /\ \E reply \in TempReplies :
          frame' = [frame EXCEPT ![t] =
                       TempFetched([@ EXCEPT !.negative =
                                       NegativeNumber(g_vapix_initialized, reply)],
                                   vapix_get_temperature(g_vapix_initialized, reply))]
    /\ UNCHANGED <<healthVars, otherVars, now, g_vapix_initialized, temperature_cache,
                   device_info_cache, cache_mutex, refresh_failed>>

\* Fault: a fetched value is dropped when the cache was refreshed meanwhile.
TempStore_once(t) ==
    /\ frame[t].pc = "store" /\ frame[t].fn = "temperature"
    /\ cache_mutex = t
    /\ temperature_cache' =
          IF temperature_cache.valid /\ temperature_cache.timestamp >= frame[t].now
          THEN temperature_cache
          ELSE CachedDouble(frame[t].temp, frame[t].now, TRUE)
    /\ cache_mutex' = NoThread
    /\ frame' = [frame EXCEPT ![t] =
                    Returned([@ EXCEPT !.temperature =
                                 [written |-> TRUE, value |-> frame[t].temp]],
                             0, "refreshed")]
    /\ refresh_failed' = [refresh_failed EXCEPT !.temperature = FALSE]
    /\ UNCHANGED <<healthVars, otherVars, now, g_vapix_initialized, device_info_cache>>

\* get_cached_temperature, the storing section after a successful fetch.
TempStore(t) ==
    /\ frame[t].pc = "store" /\ frame[t].fn = "temperature"
    /\ cache_mutex = t
    /\ temperature_cache' = CachedDouble(frame[t].temp, frame[t].now, TRUE)
    /\ cache_mutex' = NoThread
    /\ frame' = [frame EXCEPT ![t] =
                    Returned([@ EXCEPT !.temperature =
                                 [written |-> TRUE, value |-> frame[t].temp]],
                             0, "refreshed")]
    /\ refresh_failed' = [refresh_failed EXCEPT !.temperature = FALSE]
    /\ UNCHANGED <<healthVars, otherVars, now, g_vapix_initialized, device_info_cache>>

\* Fault: the cached value is served even when the cache is not valid.
TempStaleFrame_default(fr, cache) ==
    Returned([fr EXCEPT !.temperature = [written |-> TRUE, value |-> cache.value]],
             0, "stale")

\* What the stale-serving section returns: the cached value when the cache is
\* valid, else -1 with *temperature untouched.
TempStaleFrame(fr, cache) ==
    IF cache.valid
    THEN Returned([fr EXCEPT !.temperature = [written |-> TRUE, value |-> cache.value]],
                  0, "stale")
    ELSE Returned(fr, -1, "failed")

\* Fault: serving the stale value renews the timestamp.
TempStaleCache_touch(cache, t) == [cache EXCEPT !.timestamp = t]

\* The cache after the stale-serving section: as it was.
TempStaleCache(cache, t) == cache

\* get_cached_temperature, the section after a failed fetch: serve the stale
\* value when there is one, else fail.
TempStale(t) ==
    /\ frame[t].pc = "stale" /\ frame[t].fn = "temperature"
    /\ cache_mutex = t
    /\ cache_mutex' = NoThread
    /\ temperature_cache' = TempStaleCache(temperature_cache, now)
    /\ frame' = [frame EXCEPT ![t] = TempStaleFrame(@, temperature_cache)]
    /\ refresh_failed' =
          [refresh_failed EXCEPT !.temperature =
              @ \/ ( /\ temperature_cache.valid
                     /\ now - temperature_cache.timestamp >= temperature_cache.ttl_seconds )]
    /\ UNCHANGED <<healthVars, otherVars, now, g_vapix_initialized, device_info_cache>>

\* get_cached_device_info, first critical section.
InfoCheck(t) ==
    /\ frame[t].pc = "check" /\ frame[t].fn = "device_info"
    /\ cache_mutex = t
    /\ cache_mutex' = NoThread
    /\ frame' = [frame EXCEPT ![t] =
                    IF CacheHit(device_info_cache, now)
                    THEN Returned([@ EXCEPT !.info =
                                      [written |-> TRUE, value |-> device_info_cache.value]],
                                  0, "hit")
                    ELSE [@ EXCEPT !.pc = "fetch", !.now = now]]
    /\ UNCHANGED <<healthVars, otherVars, now, g_vapix_initialized, temperature_cache,
                   device_info_cache, refresh_failed>>

\* Fault: fresh_info starts as a copy of the cached record.
FreshInfo_from_cache == device_info_cache.value

\* fresh_info after memset(&fresh_info, 0, sizeof(DeviceInfo)).
FreshInfo == ZeroDeviceInfo

\* The branch on the result of vapix_get_device_info(&fresh_info).
InfoFetched(fr, res) ==
    IF res.rc = 0
    THEN [fr EXCEPT !.pc = "lock2", !.rc = 0, !.fresh_info = res.info]
    ELSE [fr EXCEPT !.pc = "lock3", !.rc = res.rc, !.now = 0, !.absent = {}]

\* get_cached_device_info, outside the mutex: the fetch returns.
InfoFetch(t) ==
    /\ frame[t].pc = "fetch" /\ frame[t].fn = "device_info"
    /\ \E reply \in InfoReplies :
          frame' = [frame EXCEPT ![t] =
                       InfoFetched([@ EXCEPT !.absent = AbsentFields(reply)],
                                   vapix_get_device_info(g_vapix_initialized, reply, FreshInfo))]
    /\ UNCHANGED <<healthVars, otherVars, now, g_vapix_initialized, temperature_cache,
                   device_info_cache, cache_mutex, refresh_failed>>

\* get_cached_device_info, the storing section after a successful fetch.
InfoStore(t) ==
    /\ frame[t].pc = "store" /\ frame[t].fn = "device_info"
    /\ cache_mutex = t
    /\ device_info_cache' = CachedDeviceInfo(frame[t].fresh_info, frame[t].now, TRUE)
    /\ cache_mutex' = NoThread
    /\ frame' = [frame EXCEPT ![t] =
                    Returned([@ EXCEPT !.info =
                                 [written |-> TRUE, value |-> frame[t].fresh_info]],
                             0, "refreshed")]
    /\ refresh_failed' = [refresh_failed EXCEPT !.device_info = FALSE]
    /\ UNCHANGED <<healthVars, otherVars, now, g_vapix_initialized, temperature_cache>>

\* Fault: a failed fetch marks the cache invalid.
InfoStale_invalidates(t) ==
    /\ frame[t].pc = "stale" /\ frame[t].fn = "device_info"
    /\ cache_mutex = t
    /\ cache_mutex' = NoThread
    /\ device_info_cache' = [device_info_cache EXCEPT !.valid = FALSE]
    /\ frame' = [frame EXCEPT ![t] =
                    IF device_info_cache.valid
                    THEN Returned([@ EXCEPT !.info =
                                      [written |-> TRUE, value |-> device_info_cache.value]],
                                  0, "stale")
                    ELSE Returned(@, -1, "failed")]
    /\ refresh_failed' =
          [refresh_failed EXCEPT !.device_info =
              @ \/ ( /\ device_info_cache.valid
                     /\ now - device_info_cache.timestamp >= device_info_cache.ttl_seconds )]
    /\ UNCHANGED <<healthVars, otherVars, now, g_vapix_initialized, temperature_cache>>

\* get_cached_device_info, the section after a failed fetch.
InfoStale(t) ==
    /\ frame[t].pc = "stale" /\ frame[t].fn = "device_info"
    /\ cache_mutex = t
    /\ cache_mutex' = NoThread
    /\ frame' = [frame EXCEPT ![t] =
                    IF device_info_cache.valid
                    THEN Returned([@ EXCEPT !.info =
                                      [written |-> TRUE, value |-> device_info_cache.value]],
                                  0, "stale")
                    ELSE Returned(@, -1, "failed")]
    /\ refresh_failed' =
          [refresh_failed EXCEPT !.device_info =
              @ \/ ( /\ device_info_cache.valid
                     /\ now - device_info_cache.timestamp >= device_info_cache.ttl_seconds )]
    /\ UNCHANGED <<healthVars, otherVars, now, g_vapix_initialized, temperature_cache, device_info_cache>>

NextCache ==
    \/ VapixInit
    \/ VapixCleanup
    \/ Tick
    \/ \E t \in Threads :
          \/ Call(t)
          \/ MutexLock(t)
          \/ TempCheck(t)
          \/ TempFetch(t)
          \/ TempStore(t)
          \/ TempStale(t)
          \/ InfoCheck(t)
          \/ InfoFetch(t)
          \/ InfoStore(t)
          \/ InfoStale(t)

InitCacheSpec ==
    /\ InitCache
    /\ InitOther
    /\ checks = <<>>
    /\ deps = <<>>
    /\ overall_status = HEALTH_STATUS_HEALTHY
    /\ hpc = "boot"
    /\ collected = NoReadings
    /\ reports = NoReports

SpecCache == InitCacheSpec /\ [][NextCache]_vars

----------------------------------------------------------------------------
(* Claims about the cached accessor *)

CacheNames == {"temperature", "device_info"}

TheCache(f) == IF f = "temperature" THEN temperature_cache ELSE device_info_cache

\* The caller's output of a frame: *temperature or *info.
Output(fr) == IF fr.fn = "temperature" THEN fr.temperature ELSE fr.info

\* The local a frame fetched into: temp or fresh_info.
Fetched(fr) == IF fr.fn = "temperature" THEN fr.temp ELSE fr.fresh_info

\* The ttl the interface documents for each cache.
DocumentedTtl(f) == IF f = "temperature" THEN 60 ELSE 300

Leaves(t, f, pc) == frame[t].fn = f /\ frame[t].pc = pc /\ frame'[t].pc # pc

\* C6: a call whose fetch succeeded leaves valid true; a call that reads the
\* cache while it is valid and now - timestamp < ttl (60 s / 300 s) returns the
\* cached value and does not fetch; a call that finds now - timestamp >= ttl
\* (or no valid value) goes on to the fetch.
C6_Freshness ==
    [][\A t \in Threads, f \in CacheNames :
          /\ Leaves(t, f, "store") => TheCache(f)'.valid
          /\ Leaves(t, f, "check") =>
                IF TheCache(f).valid /\ now - TheCache(f).timestamp < DocumentedTtl(f)
                THEN /\ frame'[t].pc = "done"
                     /\ frame'[t].ret = 0
                     /\ Output(frame'[t]) = [written |-> TRUE, value |-> TheCache(f).value]
                     /\ TheCache(f)' = TheCache(f)
                ELSE frame'[t].pc = "fetch"]_vars

\* C6 witness: one thread was served the device-info cache 299 s after its
\* timestamp, while another, which read the temperature cache when its ttl had
\* elapsed, is fetching.
C6_Witness ==
    \E t, u \in Threads :
        /\ frame[t].pc = "done" /\ frame[t].fn = "device_info" /\ frame[t].path = "hit"
        /\ device_info_cache.valid /\ now - device_info_cache.timestamp = 299
        /\ frame[t].info = [written |-> TRUE, value |-> device_info_cache.value]
        /\ frame[u].pc = "fetch" /\ frame[u].fn = "temperature"
        /\ temperature_cache.valid
        /\ frame[u].now - temperature_cache.timestamp >= 60

\* C7: when the fetch failed and the cache is valid, the call returns 0 with
\* the cached value and leaves value, timestamp and valid as they were; and
\* after a stale value was served past the ttl, every call reads the cache as
\* expired and fetches again, until a fetch succeeds.
C7_StaleServe ==
    [][\A t \in Threads, f \in CacheNames :
          /\ (Leaves(t, f, "stale") /\ TheCache(f).valid) =>
                /\ frame'[t].pc = "done"
                /\ frame'[t].ret = 0
                /\ Output(frame'[t]) = [written |-> TRUE, value |-> TheCache(f).value]
                /\ TheCache(f)' = TheCache(f)
          /\ (Leaves(t, f, "check") /\ refresh_failed[f]) => frame'[t].pc = "fetch"]_vars

\* C7 witness: a thread was served the stale temperature after the ttl had
\* elapsed, nothing was stored since, and the next call is fetching again.
C7_Witness ==
    \E t, u \in Threads :
        /\ frame[t].pc = "done" /\ frame[t].fn = "temperature" /\ frame[t].path = "stale"
        /\ frame[t].ret = 0
        /\ frame[t].temperature = [written |-> TRUE, value |-> temperature_cache.value]
        /\ refresh_failed["temperature"]
        /\ now - temperature_cache.timestamp >= 60
        /\ frame[u].pc = "fetch" /\ frame[u].fn = "temperature"
        /\ frame[u].now >= temperature_cache.timestamp + 60

\* C8: when the fetch failed and the cache holds no valid value, the call
\* returns -1, leaves the caller's output unwritten and the cache unchanged and
\* invalid; a fetch made while the client is not initialized fails; no call
\* that returned -1 has written the caller's output.
C8_FailureWithoutValue ==
    /\ [][\A t \in Threads, f \in CacheNames :
             /\ (Leaves(t, f, "stale") /\ ~TheCache(f).valid) =>
                   /\ frame'[t].pc = "done"
                   /\ frame'[t].ret = -1
                   /\ Output(frame'[t]) = Output(frame[t])
                   /\ TheCache(f)' = TheCache(f)
             /\ (Leaves(t, f, "fetch") /\ ~g_vapix_initialized) =>
                   frame'[t].pc = "lock3"]_vars
    /\ [](\A t \in Threads :
             (frame[t].pc = "done" /\ frame[t].ret = -1) => ~Output(frame[t]).written)

\* C8 witness: the client was never initialized, no cache is valid, and a
\* get_cached_temperature and a get_cached_device_info call have failed.
C8_Witness ==
    /\ ~g_vapix_initialized
    /\ ~temperature_cache.valid /\ ~device_info_cache.valid
    /\ \E t, u \in Threads :
          /\ frame[t].pc = "done" /\ frame[t].fn = "temperature"
          /\ frame[t].path = "failed" /\ frame[t].ret = -1
          /\ ~frame[t].temperature.written
          /\ frame[u].pc = "done" /\ frame[u].fn = "device_info"
          /\ frame[u].path = "failed" /\ frame[u].ret = -1
          /\ frame[u].info = [written |-> FALSE, value |-> CallerInfo]

\* The values a successful vapix_get_temperature / vapix_get_device_info returns.
FetchedTemperatures ==
    {vapix_get_temperature(TRUE, r).temperature :
        r \in {x \in TempReplies : vapix_get_temperature(TRUE, x).rc = 0}}

FetchedDeviceInfos ==
    {vapix_get_device_info(TRUE, r, ZeroDeviceInfo).info :
        r \in {x \in InfoReplies : vapix_get_device_info(TRUE, x, ZeroDeviceInfo).rc = 0}}

FetchedValues(f) == IF f = "temperature" THEN FetchedTemperatures ELSE FetchedDeviceInfos

\* C9: a valid cache holds a value that a successful fetch returned: a cache
\* changes only in the storing section of a call whose fetch returned 0, to the
\* value that fetch produced and with valid set; and the storing section is
\* entered only with such a value.
C9_ValidMeansFetched ==
    /\ [](\A f \in CacheNames : TheCache(f).valid => TheCache(f).value \in FetchedValues(f))
    /\ [](\A t \in Threads :
             frame[t].pc \in {"lock2", "store"} =>
                 /\ frame[t].rc = 0
                 /\ Fetched(frame[t]) \in FetchedValues(frame[t].fn))
    /\ [][\A f \in CacheNames :
             TheCache(f)' # TheCache(f) =>
                 \E t \in Threads :
                     /\ Leaves(t, f, "store")
                     /\ frame[t].rc = 0
                     /\ TheCache(f)'.valid
                     /\ TheCache(f)'.value = Fetched(frame[t])]_vars

\* C9 witness: both caches are valid and a thread whose fetch failed has just
\* been served the stale device info.
C9_Witness ==
    /\ temperature_cache.valid /\ device_info_cache.valid
    /\ \E t \in Threads :
          /\ frame[t].pc = "done" /\ frame[t].fn = "device_info" /\ frame[t].path = "stale"
          /\ frame[t].info.value = device_info_cache.value

RefreshFromReplyLacking(t, F) ==
    Leaves(t, "device_info", "store") /\ F \in frame[t].absent

\* C10 as claimed: after a successful refresh from a reply that lacks field F,
\* field F of the cached record, and of the record handed to the caller, still
\* holds the value the cached field had before the refresh.
C10_AbsentFieldKept ==
    [][\A t \in Threads, F \in DeviceInfoFields :
          RefreshFromReplyLacking(t, F) =>
              /\ device_info_cache'.value[F] = device_info_cache.value[F]
              /\ frame'[t].info.value[F] = device_info_cache.value[F]]_vars

\* parse_device_info_response, on any destination, leaves the fields the reply
\* lacks as they were.
ParseKeepsAbsentFields ==
    \A body \in InfoBodies, info \in {ZeroDeviceInfo, CallerInfo}, F \in DeviceInfoFields :
        (body.kind = "plist" /\ JsonKey(F) \notin DOMAIN body.props) =>
            parse_device_info_response(body, info).info[F] = info[F]

\* C10 amended: parse_device_info_response leaves a destination field
\* unchanged when the reply lacks it, and its destination in
\* get_cached_device_info is the zero-filled fresh_info, which then replaces
\* the cached record and the caller's record as a whole: after a successful
\* refresh from a reply that lacks field F, field F of both is empty.
C10_AbsentFieldEmpty ==
    /\ []ParseKeepsAbsentFields
    /\ [][\A t \in Threads, F \in DeviceInfoFields :
             RefreshFromReplyLacking(t, F) =>
                 /\ device_info_cache'.value[F] = <<>>
                 /\ frame'[t].info.value[F] = <<>>
                 /\ device_info_cache'.value = frame[t].fresh_info
                 /\ frame'[t].info.value = frame[t].fresh_info]_vars

\* C10 witness: a call refreshed the cache from a reply without model,
\* architecture and SoC; the caller's record holds the serial number cut to 63
\* characters and an empty model.
C10_Witness ==
    \E t \in Threads :
        /\ frame[t].pc = "done" /\ frame[t].fn = "device_info" /\ frame[t].path = "refreshed"
        /\ frame[t].absent = {"model", "architecture", "soc"}
        /\ frame[t].info.value.model = <<>>
        /\ Len(frame[t].info.value.serial_number) = 63
        /\ device_info_cache.value = frame[t].info.value

----------------------------------------------------------------------------
(* The log ring as a state machine (log_buffer.c).  A thread is in at most *)
(* one call; lframe[t].pc is the statement it is about to execute, and a   *)
(* call that returns leaves the frame as it was before the call.  A        *)
(* snapshot has filled the caller's array when it is about to unlock       *)
(* (pc = "gr_unlock") or to return without the lock (pc = "gr_return").    *)
(* log_buffer_destroy has no caller and is not part of the machine.        *)

\* Everything but the log ring and the clock.
logRest == <<healthVars, g_vapix_initialized, temperature_cache, device_info_cache,
             cache_mutex, frame, refresh_failed, httpVars, metricsVars>>

\* log_event, line 40: the call reads g_log_buffer_initialized, outside the lock.
LogEventCall(t) ==
    /\ lframe[t].pc = "idle"
    /\ log_calls < MaxLogCalls
    /\ \E a \in LogArgs(log_calls + 1) :
          lframe' = [lframe EXCEPT ![t] =
                        [LogFrame0 EXCEPT !.fn = "log_event",
                                          !.severity = a.severity,
                                          !.message = a.message,
                                          !.pc = IF g_log_buffer_initialized
                                                 THEN "le_lock" ELSE "le_init"]]
    /\ log_calls' = log_calls + 1
    /\ UNCHANGED <<g_log_buffer, g_log_buffer_initialized, appended, now, logRest>>

\* log_buffer_init: memset, pthread_mutex_init, flag.  Both the memset and
\* pthread_mutex_init leave an unlocked mutex, also when a thread holds it.
log_buffer_init(t) ==
    /\ lframe[t].pc = "le_init"
    /\ g_log_buffer' = ZeroLogBuffer
    /\ g_log_buffer_initialized' = TRUE
    /\ lframe' = [lframe EXCEPT ![t].pc = "le_lock"]
    /\ UNCHANGED <<log_calls, appended, now, logRest>>

\* pthread_mutex_lock(&g_log_buffer.lock), lines 44 and 85.
LogMutexLock(t) ==
    /\ lframe[t].pc \in {"le_lock", "gr_lock"}
    /\ g_log_buffer.lock = NoThread
    /\ g_log_buffer' = [g_log_buffer EXCEPT !.lock = t]
    /\ lframe' = [lframe EXCEPT ![t].pc = IF @ = "le_lock" THEN "le_timestamp" ELSE "gr_start"]
    /\ UNCHANGED <<g_log_buffer_initialized, log_calls, appended, now, logRest>>

\* lines 47-50: entry = &entries[head]; entry->timestamp = time(NULL).
LogTimestamp(t) ==
    /\ lframe[t].pc = "le_timestamp"
    /\ g_log_buffer' = [g_log_buffer EXCEPT !.entries[g_log_buffer.head].timestamp = now]
    /\ lframe' = [lframe EXCEPT ![t].entry = g_log_buffer.head,
                                ![t].stamp = now,
                                ![t].pc = "le_severity"]
    /\ UNCHANGED <<g_log_buffer_initialized, log_calls, appended, now, logRest>>

\* lines 53-54: strncpy of the severity, then the terminating zero.
LogSeverity(t) ==
    /\ lframe[t].pc = "le_severity"
    /\ g_log_buffer' = [g_log_buffer EXCEPT !.entries[lframe[t].entry].severity =
                           strncpy(MAX_SEVERITY_LENGTH - 1, lframe[t].severity)]
    /\ lframe' = [lframe EXCEPT ![t].pc = "le_message"]
    /\ UNCHANGED <<g_log_buffer_initialized, log_calls, appended, now, logRest>>

\* lines 57-60: vsnprintf of the message into the slot.
LogMessage(t) ==
    /\ lframe[t].pc = "le_message"
    /\ g_log_buffer' = [g_log_buffer EXCEPT !.entries[lframe[t].entry].message =
                           snprintf(MAX_MESSAGE_LENGTH, lframe[t].message)]
    /\ lframe' = [lframe EXCEPT ![t].pc = "le_advance"]
    /\ UNCHANGED <<g_log_buffer_initialized, log_calls, appended, now, logRest>>

\* Fault: the head runs one slot further on every append.
AdvanceHead_skip(head) == (head + 2) % MAX_LOG_ENTRIES

\* line 63.
AdvanceHead(head) == (head + 1) % MAX_LOG_ENTRIES

\* lines 66-68.
UpdateCount(count) == IF count < MAX_LOG_ENTRIES THEN count + 1 ELSE count

LogAdvance(t) ==
    /\ lframe[t].pc = "le_advance"
    /\ g_log_buffer' = [g_log_buffer EXCEPT !.head = AdvanceHead(@),
                                            !.count = UpdateCount(@)]
    /\ lframe' = [lframe EXCEPT ![t].pc = "le_unlock"]
    /\ UNCHANGED <<g_log_buffer_initialized, log_calls, appended, now, logRest>>

\* What the log_event call of frame fr stores: the instant it read and its
\* arguments cut to the fields.
EntryOf(fr) ==
    LogEntry(fr.stamp, strncpy(MAX_SEVERITY_LENGTH - 1, fr.severity),
             snprintf(MAX_MESSAGE_LENGTH, fr.message))

\* pthread_mutex_unlock, lines 70 and 114.  Unlocking stores "unlocked"
\* whoever holds the mutex.  The append of a log_event is complete here.
LogMutexUnlock(t) ==
    /\ lframe[t].pc \in {"le_unlock", "gr_unlock"}
    /\ g_log_buffer' = [g_log_buffer EXCEPT !.lock = NoThread]
    /\ appended' = IF lframe[t].pc = "le_unlock"
                   THEN Append(appended, EntryOf(lframe[t])) ELSE appended
    /\ lframe' = [lframe EXCEPT ![t] = IF @.pc = "le_unlock"
                                        THEN [@ EXCEPT !.pc = "le_syslog"] ELSE LogFrame0]
    /\ UNCHANGED <<g_log_buffer_initialized, log_calls, now, logRest>>

\* line 73: syslog of entry->message, read after the unlock.
LogSyslog(t) ==
    /\ lframe[t].pc = "le_syslog"
    /\ lframe' = [lframe EXCEPT ![t].forwarded = g_log_buffer.entries[lframe[t].entry].message,
                                ![t].pc = "le_return"]
    /\ UNCHANGED <<g_log_buffer, g_log_buffer_initialized, log_calls, appended, now, logRest>>

\* log_event and the early exit of get_recent_logs_limited (line 82) return.
LogReturn(t) ==
    /\ lframe[t].pc \in {"le_return", "gr_return"}
    /\ lframe' = [lframe EXCEPT ![t] = LogFrame0]
    /\ UNCHANGED <<g_log_buffer, g_log_buffer_initialized, log_calls, appended, now, logRest>>

\* get_recent_logs_limited(logs_array, max_entries), lines 80-83; with
\* max_entries = MAX_LOG_ENTRIES it is get_recent_logs (line 77).  The call
\* returns at once when the ring was never initialised.
GetRecentLogsCall(t) ==
    /\ lframe[t].pc = "idle"
    /\ \E m \in 0..(MAX_LOG_ENTRIES + 1) :
          lframe' = [lframe EXCEPT ![t] =
                        [LogFrame0 EXCEPT !.fn = "get_recent_logs_limited",
                                          !.max_entries = m,
                                          !.pc = IF g_log_buffer_initialized
                                                 THEN "gr_lock" ELSE "gr_return"]]
    /\ UNCHANGED <<g_log_buffer, g_log_buffer_initialized, log_calls, appended, now, logRest>>

\* line 87.
EntriesToExport(max_entries, count) == IF max_entries < count THEN max_entries ELSE count

\* Fault: the walk starts at the cursor instead of toExport slots before it.
StartIdx_at_head(head, entries_to_export) == head % MAX_LOG_ENTRIES

\* line 90.
StartIdx(head, entries_to_export) ==
    (head + MAX_LOG_ENTRIES - entries_to_export) % MAX_LOG_ENTRIES

\* Fault: the snapshot takes the exported entries out of the ring.
SnapshotStart_drains(t) ==
    /\ lframe[t].pc = "gr_start"
    /\ LET n == EntriesToExport(lframe[t].max_entries, g_log_buffer.count)
       IN  /\ lframe' = [lframe EXCEPT ![t].entries_to_export = n,
                                      ![t].start_idx = StartIdx(g_log_buffer.head, n),
                                      ![t].i = 0,
                                      ![t].pc = "gr_copy"]
           /\ g_log_buffer' = [g_log_buffer EXCEPT !.count = @ - n]
    /\ UNCHANGED <<g_log_buffer_initialized, log_calls, appended, now, logRest>>

\* lines 87-90.
SnapshotStart(t) ==
    /\ lframe[t].pc = "gr_start"
    /\ LET n == EntriesToExport(lframe[t].max_entries, g_log_buffer.count)
       IN  lframe' = [lframe EXCEPT ![t].entries_to_export = n,
                                   ![t].start_idx = StartIdx(g_log_buffer.head, n),
                                   ![t].i = 0,
                                   ![t].pc = "gr_copy"]
    /\ UNCHANGED <<g_log_buffer, g_log_buffer_initialized, log_calls, appended, now, logRest>>

\* lines 93-112: one turn of the loop, or its exit.
SnapshotCopy(t) ==
    /\ lframe[t].pc = "gr_copy"
    /\ LET fr == lframe[t]
           idx == (fr.start_idx + fr.i) % MAX_LOG_ENTRIES
       IN  IF fr.i < fr.entries_to_export
           THEN lframe' = [lframe EXCEPT
                              ![t].logs_array = Append(@, LogObject(g_log_buffer.entries[idx])),
                              ![t].i = @ + 1]
           ELSE lframe' = [lframe EXCEPT ![t].pc = "gr_unlock"]
    /\ UNCHANGED <<g_log_buffer, g_log_buffer_initialized, log_calls, appended, now, logRest>>

\* time(NULL) moves on.
LogTick ==
    /\ \E c \in LogClockValues : c > now /\ now' = c
    /\ UNCHANGED <<logVars, logRest>>

LogStep(t) ==
    \/ LogEventCall(t)
    \/ log_buffer_init(t)
    \/ LogMutexLock(t)
    \/ LogTimestamp(t)
    \/ LogSeverity(t)
    \/ LogMessage(t)
    \/ LogAdvance(t)
    \/ LogMutexUnlock(t)
    \/ LogSyslog(t)
    \/ LogReturn(t)
    \/ GetRecentLogsCall(t)
    \/ SnapshotStart(t)
    \/ SnapshotCopy(t)

InitLogSpec ==
    /\ InitCache
    /\ InitOther
    /\ checks = <<>>
    /\ deps = <<>>
    /\ overall_status = HEALTH_STATUS_HEALTHY
    /\ hpc = "boot"
    /\ collected = NoReadings
    /\ reports = NoReports

\* Sequential use: one thread makes every call.
NextLogSeq == LogTick \/ LogStep(1)

SpecLogSeq == InitLogSpec /\ [][NextLogSeq]_vars

\* Concurrent use: every thread makes calls.
\* The number of log_event calls of a concurrent run.
MaxRacingCalls == 2

NextLog ==
    /\ LogTick \/ \E t \in Threads : LogStep(t)
    /\ log_calls' <= MaxRacingCalls

SpecLog == InitLogSpec /\ [][NextLog]_vars

\* Concurrent appends on a ring that thread 1 initialised alone: the other
\* threads log only after the first call has set the flag, and nobody takes
\* a snapshot.
LogEventStep(t) ==
    \/ LogEventCall(t)
    \/ log_buffer_init(t)
    \/ LogMutexLock(t)
    \/ LogTimestamp(t)
    \/ LogSeverity(t)
    \/ LogMessage(t)
    \/ LogAdvance(t)
    \/ LogMutexUnlock(t)
    \/ LogSyslog(t)
    \/ LogReturn(t)

NextLogAppends ==
    \/ LogTick
    \/ \E t \in Threads :
          /\ g_log_buffer_initialized \/ t = 1
          /\ LogEventStep(t)

SpecLogAppends == InitLogSpec /\ [][NextLogAppends]_vars

\* The arrays a caller hands to get_recent_logs_limited: a new one, or one
\* that already holds an element.
CallerArrays == {<<>>, <<"earlier element">>}

\* get_recent_logs_limited(logs_array, max_entries) for an array that may
\* hold elements already, lines 80-83.
GetRecentLogsInto(t) ==
    /\ lframe[t].pc = "idle"
    /\ \E m \in 0..(MAX_LOG_ENTRIES + 1), arr \in CallerArrays :
          lframe' = [lframe EXCEPT ![t] =
                        [LogFrame0 EXCEPT !.fn = "get_recent_logs_limited",
                                          !.max_entries = m,
                                          !.logs_array = arr,
                                          !.given = arr,
                                          !.pc = IF g_log_buffer_initialized
                                                 THEN "gr_lock" ELSE "gr_return"]]
    /\ UNCHANGED <<g_log_buffer, g_log_buffer_initialized, log_calls, appended, now, logRest>>

\* One thread appends and takes snapshots into arrays of its own.
NextLogSnapshot ==
    \/ LogTick
    \/ LogEventStep(1)
    \/ GetRecentLogsInto(1)
    \/ SnapshotStart(1)
    \/ SnapshotCopy(1)

SpecLogSnapshot == InitLogSpec /\ [][NextLogSnapshot]_vars

----------------------------------------------------------------------------
(* The server process as a state machine: main of lrf_controller.c on top  *)
(* of http_server.c.  The main of axis-lh-server is not among the sources; *)
(* it is taken to be the same main with the registry of that program.      *)

Programs == {"lrf-controller", "axis-lh-server"}

\* lrf_controller.c, lines 171-173.
LrfControllerHandlers ==
    <<HandlerEntry(<<"/distance">>, "distance_handler"),
      HandlerEntry(<<"/command">>, "command_handler"),
      HandlerEntry(<<"/status">>, "status_handler")>>

\* The registry of axis-lh-server: the endpoints health.h and metrics.h name.
AxisLhServerHandlers ==
    <<HandlerEntry(<<"/health">>, "health_handler"),
      HandlerEntry(<<"/metrics">>, "metrics_handler")>>

Registry(program) ==
    IF program = "lrf-controller" THEN LrfControllerHandlers ELSE AxisLhServerHandlers

RECURSIVE AddHandlers(_, _)
AddHandlers(srv, entries) ==
    IF entries = <<>> THEN srv
    ELSE AddHandlers(http_server_add_handler(srv, Head(entries).path, Head(entries).handler),
                     Tail(entries))

\* The requests clients send.
Methods == {<<"GET">>, <<"POST">>, <<"PUT">>}

Targets(program) ==
    {Registry(program)[i].path : i \in 1..Len(Registry(program))}
        \cup {<<"/nowhere">>, Registry(program)[1].path \o <<"?x=1">>}

JsonBodies == {"{cmd:1}", "{cmd:x}", "junk"}

RequestHead(m, p) == m \o <<SP>> \o p \o <<SP, "HTTP/1.1", CRLF>>

\* What a client sends to a server whose caller registered CallerPaths.
CallerPaths == {<<"/status">>, <<"/health">>}

CallerTargets ==
    CallerPaths \cup {<<"/status", "/">>,        \* a trailing slash
                      <<"/status", "?x=1">>,     \* a query string
                      <<"/nowhere">>}

CallerRequests == {RequestHead(<<"GET">>, p) \o <<CRLF>> : p \in CallerTargets}

\* Header lines and the bytes sent after the blank line: no Content-Length,
\* a zero one, one that is larger or smaller than what was sent, a negative one.
LengthHeader(n) == <<"Content-Length:", SP, n, CRLF>>

BodyVariants ==
    {[headers |-> <<>>, sent |-> <<"junk">>],
     [headers |-> LengthHeader("0"), sent |-> <<>>],
     [headers |-> LengthHeader("0"), sent |-> <<"junk">>],
     [headers |-> LengthHeader("2"), sent |-> <<"{cmd:1}">>],
     [headers |-> LengthHeader("1"), sent |-> <<"{cmd:1}", "junk">>],
     [headers |-> LengthHeader("2"), sent |-> <<"{cmd:1}", "junk">>],
     [headers |-> LengthHeader("3"), sent |-> <<>>],
     [headers |-> LengthHeader("-1"), sent |-> <<"junk">>]}

Requests(program) ==
    IF program = "caller" THEN CallerRequests ELSE
    {RequestHead(m, p) \o <<CRLF>> : m \in Methods, p \in Targets(program)}
    \cup {RequestHead(<<"POST">>, Registry(program)[i].path)
              \o <<"Content-Length:", SP, "1", CRLF, CRLF, b>> :
                 i \in 1..Len(Registry(program)), b \in JsonBodies}
    \cup { <<"GET", CRLF, CRLF>>,                     \* no path
           <<"GET", SP>>,                             \* an empty path
           <<SP>> \o Registry(program)[1].path,       \* an empty method
           <<CRLF, CRLF>>,                            \* an empty first line
           <<NUL, "GET", SP, "/nowhere", CRLF, CRLF>> \* a zero byte first
         }
    \cup {RequestHead(<<"POST">>, Registry(program)[i].path) \o v.headers \o <<CRLF>> \o v.sent :
             i \in 1..Len(Registry(program)), v \in BodyVariants}

\* The collector results a health request can see.
HandlerReadings ==
    {[mem |-> m, disk |-> [ok |-> TRUE, value |-> 120], temp |-> [ok |-> TRUE, value |-> 60],
      i2c |-> c] : m \in Readings({60}), c \in BOOLEAN}

httpRest == <<cacheVars, logVars, metricsVars>>

\* main, lines 149-173: the signal handlers, lrf_open (which can fail),
\* http_server_new and the registrations.
Main ==
    /\ proc.pc = "boot"
    /\ \E program \in Programs, opened \in BOOLEAN :
          /\ proc' = [proc EXCEPT !.program = program, !.pc = "start"]
          /\ lrf_device' = IF program = "lrf-controller" /\ opened
                           THEN Ptr([fd |-> DeviceFd]) ELSE NULL
          /\ os' = [os EXCEPT !.fds = IF program = "lrf-controller" /\ opened
                                      THEN {DeviceFd} ELSE {},
                              !.syslog = @ \cup IF program = "lrf-controller" /\ ~opened
                                                THEN {"Failed to open LRF device"} ELSE {}]
          /\ server' = Ptr(AddHandlers(http_server_new, Registry(program)))
    /\ UNCHANGED <<conn, g_http_requests_total, healthVars, httpRest>>

\* main, line 175: the call of http_server_start.
HttpServerStart ==
    /\ proc.pc = "start"
    /\ \E outcome \in StartOutcomes :
          LET r == http_server_start(server[1], outcome)
          IN  /\ server' = Ptr(r.server)
              /\ os' = [os EXCEPT !.fds = @ \cup r.opened,
                                  !.syslog = @ \cup {r.log}]
              /\ proc' = [proc EXCEPT !.start_ret = r.ret, !.pc = "started"]
    /\ UNCHANGED <<lrf_device, conn, g_http_requests_total, healthVars, httpRest>>

\* http_server_free and lrf_close: the descriptors they close.
ClosedAtExit == {ListenFd, DeviceFd}

\* main, lines 175-183: after a failed start the server and the device are
\* freed and panic logs and exits with status 1.
MainAfterStart ==
    /\ proc.pc = "started"
    /\ IF proc.start_ret
       THEN /\ proc' = [proc EXCEPT !.pc = "loop"]
            /\ os' = [os EXCEPT !.syslog = @ \cup {"server started successfully"}]
            /\ UNCHANGED <<server, lrf_device>>
       ELSE /\ server' = NULL
            /\ lrf_device' = NULL
            /\ os' = [os EXCEPT !.fds = @ \ ClosedAtExit,
                                !.syslog = @ \cup {"Failed to start HTTP server"}]
            /\ proc' = [proc EXCEPT !.pc = "exited", !.exit_status = 1]
    /\ UNCHANGED <<conn, g_http_requests_total, healthVars, httpRest>>

\* Fault: the loop does not look at the flag.
LoopContinues_always(srv) == TRUE

\* http_server_run, line 166: while (server->running).
LoopContinues(srv) == srv.running

RunLoopTest ==
    /\ proc.pc = "loop"
    /\ proc' = [proc EXCEPT !.pc = IF LoopContinues(server[1]) THEN "accept" ELSE "shutdown"]
    /\ UNCHANGED <<server, lrf_device, os, conn, g_http_requests_total, healthVars, httpRest>>

\* lines 170-176: accept returns a connection or fails.
Accept ==
    /\ proc.pc = "accept"
    /\ \/ /\ proc' = [proc EXCEPT !.client_fd = -1, !.pc = "loop"]
          /\ os' = [os EXCEPT !.syslog = @ \cup IF server[1].running
                                                THEN {"Accept failed"} ELSE {}]
          /\ UNCHANGED conn
       \/ /\ os.accepted < MaxConnections
          /\ proc' = [proc EXCEPT !.client_fd = ClientFd(os.accepted + 1), !.pc = "read"]
          /\ os' = [os EXCEPT !.fds = @ \cup {ClientFd(os.accepted + 1)},
                              !.accepted = @ + 1]
          /\ conn' = Conn0
    /\ UNCHANGED <<server, lrf_device, g_http_requests_total, healthVars, httpRest>>

\* close(client_fd).
CloseClient ==
    /\ os' = [os EXCEPT !.fds = @ \ {proc.client_fd}]
    /\ conn' = [conn EXCEPT !.closes = @ + 1]

\* lines 178-184: one read; without bytes the connection is closed.
Read ==
    /\ proc.pc = "read"
    /\ \/ /\ CloseClient
          /\ proc' = [proc EXCEPT !.pc = "loop"]
       \/ /\ \E bytes \in Requests(proc.program) :
                proc' = [proc EXCEPT !.buffer = bytes, !.pc = "parse"]
          /\ UNCHANGED <<os, conn>>
    /\ UNCHANGED <<server, lrf_device, g_http_requests_total, healthVars, httpRest>>

\* line 186.  A null pointer dereference in parse_request ends the process.
ParseRequest ==
    /\ proc.pc = "parse"
    /\ LET r == parse_request(proc.buffer)
       IN  proc' = IF r.crashed
                   THEN [proc EXCEPT !.pc = "crashed"]
                   ELSE [proc EXCEPT !.req = r, !.pc = "dispatch"]
    /\ UNCHANGED <<server, lrf_device, os, conn, g_http_requests_total, healthVars, httpRest>>

\* A JSON body: {"error": "<message>"} or the object of a result.
JsonError(message) == [kind |-> "error", value |-> message]
JsonResult(value) == [kind |-> "result", value |-> value]

\* http_send_json: one response with the status and the body on the connection.
http_send_json(status, by, body) ==
    conn' = [conn EXCEPT !.responses = Append(@, [status |-> status, by |-> by]),
                         !.bodies = Append(@, body)]

\* http_send_error: the message wrapped in a JSON error object.
http_send_error(status, by, message) == http_send_json(status, by, JsonError(message))

\* lines 188-205: look the path up; without an entry 404, without method
\* and path 400.
Dispatch ==
    /\ proc.pc = "dispatch"
    /\ IF proc.req.method # NULL /\ proc.req.path # NULL
       THEN LET i == FindHandler(server[1].handlers, proc.req.path)
            IN  IF i > 0
                THEN /\ proc' = [proc EXCEPT !.handler = server[1].handlers[i].handler,
                                             !.pc = "handler", !.handled = @ + 1]
                     /\ conn' = [conn EXCEPT !.invoked = Append(@, server[1].handlers[i].handler)]
                ELSE /\ http_send_error(404, "http_server_run", "Not Found")
                     /\ proc' = [proc EXCEPT !.pc = "close", !.handled = @ + 1]
       ELSE /\ http_send_error(400, "http_server_run", "Bad Request")
            /\ proc' = [proc EXCEPT !.pc = "close", !.handled = @ + 1]
    /\ UNCHANGED <<server, lrf_device, os, g_http_requests_total, healthVars, httpRest>>

\* The handler returns to http_server_run.
HandlerReturns == proc' = [proc EXCEPT !.handler = "none", !.pc = "close"]

\* g_strcmp0(request->method, m) == 0.
MethodIs(req, m) == req.method = Ptr(<<m>>)

\* Fault: the method is not validated.
health_handler_any_method ==
    /\ proc.pc = "handler" /\ proc.handler = "health_handler"
    /\ \E rd \in HandlerReadings :
          LET r == generate_health_report(rd.mem, rd.disk, rd.temp, rd.i2c)
          IN  /\ checks' = r.checks
              /\ deps' = r.deps
              /\ overall_status' = r.overall
              /\ collected' = rd
              /\ hpc' = "report"
    /\ http_send_json(200, "health_handler", JsonResult("health report"))
    /\ HandlerReturns
    /\ UNCHANGED <<reports, server, lrf_device, os, g_http_requests_total, httpRest>>

\* health.c, lines 285-308.
health_handler ==
    /\ proc.pc = "handler" /\ proc.handler = "health_handler"
    /\ IF ~MethodIs(proc.req, "GET")
       THEN /\ http_send_error(405, "health_handler", "Method not allowed")
            /\ UNCHANGED healthVars
       ELSE /\ \E rd \in HandlerReadings :
                  LET r == generate_health_report(rd.mem, rd.disk, rd.temp, rd.i2c)
                  IN  /\ checks' = r.checks
                      /\ deps' = r.deps
                      /\ overall_status' = r.overall
                      /\ collected' = rd
                      /\ hpc' = "report"
                      /\ UNCHANGED reports
            /\ http_send_json(200, "health_handler", JsonResult("health report"))
    /\ HandlerReturns
    /\ UNCHANGED <<server, lrf_device, os, g_http_requests_total, httpRest>>

\* metrics.c, lines 208-256: the request counter is incremented first.
metrics_handler ==
    /\ proc.pc = "handler" /\ proc.handler = "metrics_handler"
    /\ g_http_requests_total' = g_http_requests_total + 1
    /\ IF ~MethodIs(proc.req, "GET")
       THEN http_send_error(405, "metrics_handler", "Method not allowed")
       \* the metrics are written with send, as text
       ELSE http_send_json(200, "metrics_handler", [kind |-> "text", value |-> "metrics"])
    /\ HandlerReturns
    /\ UNCHANGED <<server, lrf_device, os, healthVars, httpRest>>

\* lrf_read_distance (i2c_lrf.c, lines 107-129): FALSE without a device,
\* FALSE with a warning when the bus transaction fails, else TRUE.
lrf_read_distance(dev, bus_ok) ==
    IF dev = NULL \/ dev[1].fd < 0 THEN [ret |-> FALSE, log |-> {}]
    ELSE IF ~bus_ok THEN [ret |-> FALSE, log |-> {"Failed to read distance from LRF"}]
    ELSE [ret |-> TRUE, log |-> {}]

\* lrf_send_command (i2c_lrf.c, lines 131-152).
lrf_send_command(dev, bus_ok) ==
    IF dev = NULL \/ dev[1].fd < 0 THEN [ret |-> FALSE, log |-> {}]
    ELSE IF ~bus_ok THEN [ret |-> FALSE, log |-> {"Failed to send command to LRF"}]
    ELSE [ret |-> TRUE, log |-> {}]

\* The process log and the count of failed device calls after a device call.
AfterLrfCall(r) ==
    os' = [os EXCEPT !.syslog = @ \cup r.log,
                     !.lrf_failures = @ + IF r.ret THEN 0 ELSE 1]

\* Fault: the failure of the read is ignored.
distance_handler_ignores_failure ==
    /\ proc.pc = "handler" /\ proc.handler = "distance_handler"
    /\ IF ~MethodIs(proc.req, "GET")
       THEN /\ http_send_error(405, "distance_handler", "Method not allowed")
            /\ UNCHANGED os
       ELSE \E bus_ok \in BOOLEAN :
               LET r == lrf_read_distance(lrf_device, bus_ok)
               IN  /\ AfterLrfCall(r)
                   /\ http_send_json(200, "distance_handler", JsonResult("distance_m"))
    /\ HandlerReturns
    /\ UNCHANGED <<server, lrf_device, g_http_requests_total, healthVars, httpRest>>

\* lrf_controller.c, lines 50-71.
distance_handler ==
    /\ proc.pc = "handler" /\ proc.handler = "distance_handler"
    /\ IF ~MethodIs(proc.req, "GET")
       THEN /\ http_send_error(405, "distance_handler", "Method not allowed")
            /\ UNCHANGED os
       ELSE \E bus_ok \in BOOLEAN :
               LET r == lrf_read_distance(lrf_device, bus_ok)
               IN  /\ AfterLrfCall(r)
                   /\ IF r.ret
                      THEN http_send_json(200, "distance_handler", JsonResult("distance_m"))
                      ELSE http_send_error(500, "distance_handler",
                                           "Failed to read distance from LRF")
    /\ HandlerReturns
    /\ UNCHANGED <<server, lrf_device, g_http_requests_total, healthVars, httpRest>>

\* json_loads and json_object_get(json, "cmd") on the request body.
JsonLoads(body) == body \in {<<"{cmd:1}">>, <<"{cmd:x}">>}
JsonCmdIsInteger(body) == body = <<"{cmd:1}">>

\* lrf_controller.c, lines 73-123.
command_handler ==
    /\ proc.pc = "handler" /\ proc.handler = "command_handler"
    /\ IF ~MethodIs(proc.req, "POST")
       THEN /\ http_send_error(405, "command_handler", "Method not allowed")
            /\ UNCHANGED os
       ELSE IF proc.req.body = NULL \/ proc.req.body_len = 0
       THEN /\ http_send_error(400, "command_handler", "No request body")
            /\ UNCHANGED os
       ELSE IF ~JsonLoads(proc.req.body[1])
       THEN /\ http_send_error(400, "command_handler", "Invalid JSON")
            /\ UNCHANGED os
       ELSE IF ~JsonCmdIsInteger(proc.req.body[1])
       THEN /\ http_send_error(400, "command_handler", "Missing or invalid 'cmd' field")
            /\ UNCHANGED os
       ELSE \E bus_ok \in BOOLEAN :
               LET r == lrf_send_command(lrf_device, bus_ok)
               IN  /\ AfterLrfCall(r)
                   /\ IF r.ret
                      THEN http_send_json(200, "command_handler", JsonResult("response"))
                      ELSE http_send_error(500, "command_handler",
                                           "Failed to send command to LRF")
    /\ HandlerReturns
    /\ UNCHANGED <<server, lrf_device, g_http_requests_total, healthVars, httpRest>>

\* lrf_controller.c, lines 125-146.
status_handler ==
    /\ proc.pc = "handler" /\ proc.handler = "status_handler"
    /\ IF ~MethodIs(proc.req, "GET")
       THEN http_send_error(405, "status_handler", "Method not allowed")
       ELSE http_send_json(200, "status_handler",
                           JsonResult(IF lrf_device # NULL /\ lrf_device[1].fd >= 0
                                      THEN "connected: true" ELSE "connected: false"))
    /\ HandlerReturns
    /\ UNCHANGED <<server, lrf_device, os, g_http_requests_total, healthVars, httpRest>>

\* http_server.c, lines 207-208: free_request and close.
CloseConnection ==
    /\ proc.pc = "close"
    /\ CloseClient
    /\ proc' = [proc EXCEPT !.buffer = <<>>, !.req = NoRequest, !.pc = "loop"]
    /\ UNCHANGED <<server, lrf_device, g_http_requests_total, healthVars, httpRest>>

\* main, lines 187-195: after http_server_run returned.
Shutdown ==
    /\ proc.pc = "shutdown"
    /\ server' = NULL
    /\ lrf_device' = NULL
    /\ os' = [os EXCEPT !.fds = @ \ ClosedAtExit,
                        !.syslog = @ \cup {"shutting down"}]
    /\ proc' = [proc EXCEPT !.pc = "exited", !.exit_status = 0]
    /\ UNCHANGED <<conn, g_http_requests_total, healthVars, httpRest>>

\* SIGTERM or SIGINT arrives: stop_application, lrf_controller.c lines 43-48.
stop_application ==
    /\ proc.pc \notin {"boot", "exited", "crashed"}
    /\ server # NULL
    /\ server' = Ptr(http_server_stop(server[1]))
    /\ proc' = [proc EXCEPT !.stopped_at = IF @ = "never" /\ server[1].running
                                           THEN proc.pc ELSE @]
    /\ UNCHANGED <<lrf_device, os, conn, g_http_requests_total, healthVars, httpRest>>

NextHttp ==
    \/ Main
    \/ HttpServerStart
    \/ MainAfterStart
    \/ RunLoopTest
    \/ Accept
    \/ Read
    \/ ParseRequest
    \/ Dispatch
    \/ health_handler
    \/ metrics_handler
    \/ distance_handler
    \/ command_handler
    \/ status_handler
    \/ CloseConnection
    \/ Shutdown
    \/ stop_application

InitHttpSpec ==
    /\ InitCache
    /\ InitOther
    /\ checks = <<>>
    /\ deps = <<>>
    /\ overall_status = HEALTH_STATUS_HEALTHY
    /\ hpc = "boot"
    /\ collected = NoReadings
    /\ reports = NoReports

SpecHttp == InitHttpSpec /\ [][NextHttp]_vars

----------------------------------------------------------------------------
(* http_server.c under any caller: the caller registers any sequence of    *)
(* bindings, the same path possibly more than once, starts the server and  *)
(* calls http_server_run.                                                  *)

\* The number of http_server_add_handler calls of the caller.
MaxHandlers == 3

CallerHandlers == {"handler_a", "handler_b"}

CallerEntries == {HandlerEntry(p, h) : p \in CallerPaths, h \in CallerHandlers}

Registries ==
    UNION {[1..n -> CallerEntries] : n \in 0..MaxHandlers}

\* A handler of the caller: it answers and returns.
caller_handler ==
    /\ proc.pc = "handler" /\ proc.handler \in CallerHandlers
    /\ http_send_json(200, proc.handler, JsonResult("answer"))
    /\ HandlerReturns
    /\ UNCHANGED <<server, lrf_device, os, g_http_requests_total, healthVars, httpRest>>

InitRegistrySpec ==
    /\ InitCache
    /\ InitLogBuffer
    /\ InitMetrics
    /\ checks = <<>>
    /\ deps = <<>>
    /\ overall_status = HEALTH_STATUS_HEALTHY
    /\ hpc = "boot"
    /\ collected = NoReadings
    /\ reports = NoReports
    /\ \E entries \in Registries :
          server = Ptr(http_server_start(AddHandlers(http_server_new, entries),
                                         "listening").server)
    /\ lrf_device = NULL
    /\ proc = [Proc0 EXCEPT !.program = "caller", !.start_ret = TRUE, !.pc = "loop"]
    /\ os = [fds |-> {ListenFd}, syslog |-> {"HTTP server listening on port"}, accepted |-> 0,
             lrf_failures |-> 0]
    /\ conn = Conn0
    /\ g_http_requests_total = 0

NextRegistry ==
    \/ RunLoopTest
    \/ Accept
    \/ Read
    \/ ParseRequest
    \/ Dispatch
    \/ caller_handler
    \/ CloseConnection

SpecRegistry == InitRegistrySpec /\ [][NextRegistry]_vars

----------------------------------------------------------------------------
(* metrics_handler, called for one request after the other *)

\* The number of requests to the metrics endpoint.
MaxMetricsRequests == 3

metricsRest == <<healthVars, cacheVars, logVars, server, lrf_device, proc, os, conn, cpu_call>>

\* Fault: a failed read of the CPU counters forgets the previous sample.
MetricsHandlerCall_forgets(method, o) ==
    /\ g_http_requests_total < MaxMetricsRequests
    /\ g_http_requests_total' = g_http_requests_total + 1
    /\ IF method # <<"GET">>
       THEN /\ metrics_response' = [NoMetricsResponse EXCEPT !.status = 405, !.method = method]
            /\ UNCHANGED cpu_statics
       ELSE LET sys == collect_system_metrics(EmptyMetrics, o, cpu_statics)
                net == collect_network_metrics(
                          [output |-> sys.output, warnings |-> sys.warnings,
                           cpu_usage |-> sys.cpu_usage, http_requests_total |-> -1], o)
                disk == collect_disk_metrics(net, o)
                svc == collect_service_metrics(disk, o, g_http_requests_total')
                all == collect_vapix_metrics(svc, o)
            IN  /\ metrics_response' = [status |-> 200, metrics |-> all, method |-> method,
                                        answered |-> o,
                                        sampled_before |-> ~cpu_statics.first_sample]
                /\ cpu_statics' = IF o.cpu = NULL
                                  THEN [prev_cpu |-> ZeroCpuStats, first_sample |-> TRUE]
                                  ELSE sys.statics
    /\ UNCHANGED metricsRest


\* metrics.c, lines 208-256, for a request with the given method and the
\* given answers of the collaborators.
MetricsHandlerCall(method, o) ==
    /\ g_http_requests_total < MaxMetricsRequests
    /\ g_http_requests_total' = g_http_requests_total + 1
    /\ IF method # <<"GET">>
       THEN /\ metrics_response' = [NoMetricsResponse EXCEPT !.status = 405, !.method = method]
            /\ UNCHANGED cpu_statics
       ELSE LET sys == collect_system_metrics(EmptyMetrics, o, cpu_statics)
                net == collect_network_metrics(
                          [output |-> sys.output, warnings |-> sys.warnings,
                           cpu_usage |-> sys.cpu_usage, http_requests_total |-> -1], o)
                disk == collect_disk_metrics(net, o)
                svc == collect_service_metrics(disk, o, g_http_requests_total')
                all == collect_vapix_metrics(svc, o)
            IN  /\ metrics_response' = [status |-> 200, metrics |-> all, method |-> method,
                                        answered |-> o,
                                        sampled_before |-> ~cpu_statics.first_sample]
                /\ cpu_statics' = sys.statics
    /\ UNCHANGED metricsRest

MetricsRequest ==
    \/ \E o \in Collaborators : MetricsHandlerCall(<<"GET">>, o)
    \/ \E method \in Methods \ {<<"GET">>} : MetricsHandlerCall(method, NoCollaborators)

InitMetricsSpec ==
    /\ InitCache
    /\ InitOther
    /\ checks = <<>>
    /\ deps = <<>>
    /\ overall_status = HEALTH_STATUS_HEALTHY
    /\ hpc = "boot"
    /\ collected = NoReadings
    /\ reports = NoReports

NextMetrics == MetricsRequest

SpecMetrics == InitMetricsSpec /\ [][NextMetrics]_vars

----------------------------------------------------------------------------
(* calculate_cpu_usage, called with any pair of samples *)

\* The counter values of the samples.
MaxCounter == 2

CpuSamples ==
    {CPUStats(user, nice, 0, idle, iowait, 0, 0, 0) :
        user \in 0..MaxCounter, nice \in 0..1, idle \in 0..MaxCounter, iowait \in 0..1}

CpuPointers == {NULL} \cup {Ptr(st) : st \in CpuSamples}

CalculateCpuUsage ==
    /\ cpu_call.pc = "called"
    /\ cpu_call' = [cpu_call EXCEPT !.pc = "returned",
                                    !.usage = calculate_cpu_usage(cpu_call.prev, cpu_call.curr)]
    /\ UNCHANGED <<healthVars, cacheVars, logVars, httpVars, cpu_statics, metrics_response>>

InitCpuSpec ==
    /\ InitCache
    /\ InitLogBuffer
    /\ InitHttpServer
    /\ checks = <<>>
    /\ deps = <<>>
    /\ overall_status = HEALTH_STATUS_HEALTHY
    /\ hpc = "boot"
    /\ collected = NoReadings
    /\ reports = NoReports
    /\ cpu_statics = [prev_cpu |-> ZeroCpuStats, first_sample |-> TRUE]
    /\ metrics_response = NoMetricsResponse
    /\ \E prev \in CpuPointers, curr \in CpuPointers :
          cpu_call = [pc |-> "called", prev |-> prev, curr |-> curr, usage |-> Quotient(0, 1)]

NextCpu == CalculateCpuUsage

SpecCpu == InitCpuSpec /\ [][NextCpu]_vars

----------------------------------------------------------------------------
(* Claims about the log ring *)

\* The min(total appends, capacity) most recent completed appends, oldest first.
Retained ==
    LET k == Min(Len(appended), MAX_LOG_ENTRIES)
    IN  SubSeq(appended, Len(appended) - k + 1, Len(appended))

\* The ring read by the traversal that starts at the oldest retained entry.
RingEntries ==
    [j \in 1..g_log_buffer.count |->
        g_log_buffer.entries[(g_log_buffer.head + MAX_LOG_ENTRIES - g_log_buffer.count + j - 1)
                                % MAX_LOG_ENTRIES]]

\* The last n of the completed appends, as exported objects, oldest first.
LastExported(n) ==
    [j \in 1..n |-> LogObject(appended[Len(appended) - n + j])]

\* The snapshot of thread t has filled the caller's array.
SnapshotFilled(t) ==
    /\ lframe[t].fn = "get_recent_logs_limited"
    /\ lframe[t].pc \in {"gr_unlock", "gr_return"}

\* C11: in sequential use the ring holds, whenever no append is in its
\* critical section, the min(total appends, MAX_LOG_ENTRIES) most recent
\* entries, oldest first, and count is that minimum; a full-size snapshot
\* (get_recent_logs) returns exactly these entries, oldest first: the last N
\* after N+k appends, the m appended after m < N appends.
C11_RingRetention ==
    /\ g_log_buffer.lock = NoThread =>
          /\ g_log_buffer.count = Min(Len(appended), MAX_LOG_ENTRIES)
          /\ RingEntries = Retained
    /\ \A t \in Threads :
          SnapshotFilled(t) /\ lframe[t].max_entries = MAX_LOG_ENTRIES =>
             lframe[t].logs_array = LastExported(Min(Len(appended), MAX_LOG_ENTRIES))

\* A full-size snapshot taken after the ring has wrapped around.
C11_Witness ==
    \E t \in Threads :
        /\ SnapshotFilled(t)
        /\ lframe[t].max_entries = MAX_LOG_ENTRIES
        /\ Len(appended) > MAX_LOG_ENTRIES
        /\ Len(lframe[t].logs_array) = MAX_LOG_ENTRIES

\* C12: in sequential use get_recent_logs_limited(max_entries) exports
\* exactly min(max_entries, count) entries, the most recently appended ones,
\* oldest first, the first of them being the slot
\* (head + MAX_LOG_ENTRIES - toExport) mod MAX_LOG_ENTRIES; nothing for
\* max_entries = 0, every retained entry once for max_entries > count.
C12_LimitedExport ==
    \A t \in Threads :
        SnapshotFilled(t) =>
           LET n == Min(lframe[t].max_entries, g_log_buffer.count)
               first == (g_log_buffer.head + MAX_LOG_ENTRIES - n) % MAX_LOG_ENTRIES
           IN  /\ Len(lframe[t].logs_array) = n
               /\ n <= Len(appended)
               /\ lframe[t].logs_array = LastExported(n)
               /\ n > 0 => lframe[t].logs_array[1] = LogObject(g_log_buffer.entries[first])
               /\ lframe[t].max_entries = 0 => lframe[t].logs_array = <<>>
               /\ lframe[t].max_entries > g_log_buffer.count =>
                     lframe[t].logs_array = [j \in 1..g_log_buffer.count |-> LogObject(RingEntries[j])]

\* A snapshot of fewer entries than the wrapped ring retains.
C12_Witness ==
    \E t \in Threads :
        /\ SnapshotFilled(t)
        /\ Len(appended) > MAX_LOG_ENTRIES
        /\ lframe[t].max_entries > 0
        /\ lframe[t].max_entries < g_log_buffer.count
        /\ Len(lframe[t].logs_array) = lframe[t].max_entries

\* Thread t is between the lock and the unlock of log_event.
AppendInProgress(t) ==
    lframe[t].pc \in {"le_timestamp", "le_severity", "le_message", "le_advance", "le_unlock"}

\* C13: for every interleaving of log_event calls of concurrent threads, the
\* first use and its lazy initialisation included, no completed append is
\* lost: after T completed appends count = min(T, MAX_LOG_ENTRIES) and the
\* ring holds the min(T, MAX_LOG_ENTRIES) most recent entries, whenever no
\* append is between its lock and its unlock.
C13_NoAppendLost ==
    (\A t \in Threads : ~AppendInProgress(t)) =>
        /\ g_log_buffer.count = Min(Len(appended), MAX_LOG_ENTRIES)
        /\ \A j \in 1..g_log_buffer.count : RingEntries[j] = Retained[j]

\* C14: a snapshot that runs concurrently with log_event calls never exports
\* a torn or mixed entry: every exported entry has the timestamp, severity
\* and message of one completed append.
C14_NoTornExport ==
    \A t \in Threads :
        \A j \in 1..Len(lframe[t].logs_array) :
            \E k \in 1..Len(appended) :
                lframe[t].logs_array[j] = LogObject(appended[k])

----------------------------------------------------------------------------
(* Claims about the dispatcher and the server process *)

\* The first line of the request text, and whether it has a method and a
\* path: two words separated by a space.
FirstLine(bytes) ==
    LET text == CStr(bytes)
        i == IndexOf(text, CRLF)
    IN  IF i = 0 THEN text ELSE SubSeq(text, 1, i - 1)

HasMethodAndPath(bytes) == IndexOf(FirstLine(bytes), SP) > 0

\* The path of a request line that has one: what lies between the first
\* space and the second.
PathOf(bytes) ==
    LET line == FirstLine(bytes)
        rest == SubSeq(line, IndexOf(line, SP) + 1, Len(line))
        j == IndexOf(rest, SP)
    IN  IF j = 0 THEN rest ELSE SubSeq(rest, 1, j - 1)

Registered(program, path) ==
    \E i \in 1..Len(Registry(program)) : Registry(program)[i].path = path

\* http_server_run is done with the request it read: it is about to close
\* the connection, or the process has ended.
RequestSettled == proc.pc \in {"close", "crashed"}

\* C15: a request with a method and a path whose path is not registered gets
\* one 404 response and no handler; a request without a parseable method
\* and path gets one 400 response and no handler.
C15_RoutingErrors ==
    RequestSettled =>
        /\ HasMethodAndPath(proc.buffer) /\ ~Registered(proc.program, PathOf(proc.buffer)) =>
              /\ conn.responses = <<[status |-> 404, by |-> "http_server_run"]>>
              /\ conn.invoked = <<>>
        /\ ~HasMethodAndPath(proc.buffer) =>
              /\ conn.responses = <<[status |-> 400, by |-> "http_server_run"]>>
              /\ conn.invoked = <<>>

\* The method the handler accepts.
AcceptedMethod(handler) == IF handler = "command_handler" THEN "POST" ELSE "GET"

\* The step in which the invoked handler runs and returns.
HandlerStep == proc.pc = "handler" /\ proc'.pc = "close"

WrongMethod == ~MethodIs(proc.req, AcceptedMethod(proc.handler))

\* The step in which the dispatcher invokes a handler.
InvokeStep == proc.pc = "dispatch" /\ proc'.pc = "handler"

\* The dispatcher invokes the handler registered for the path, whatever the method.
RoutesOnPathOnly ==
    /\ proc.pc = "dispatch" /\ proc'.pc # "dispatch"
       /\ HasMethodAndPath(proc.buffer) /\ Registered(proc.program, PathOf(proc.buffer))
          => InvokeStep
    /\ InvokeStep =>
          \E i \in 1..Len(Registry(proc.program)) :
              /\ Registry(proc.program)[i].path = PathOf(proc.buffer)
              /\ proc'.handler = Registry(proc.program)[i].handler

\* C16 as stated: the dispatcher routes on the path only, and every handler
\* answers a wrong method with 405 and nothing else: no other response and
\* no change of the server state, the request counter included.
C16_WrongMethodNoEffect ==
    [][ /\ RoutesOnPathOnly
        /\ HandlerStep /\ WrongMethod =>
              /\ conn'.responses = <<[status |-> 405, by |-> proc.handler]>>
              /\ UNCHANGED <<server, lrf_device, os, g_http_requests_total, healthVars>>
      ]_vars

\* C16 as amended: the dispatcher routes on the path only, and every handler
\* answers a wrong method with 405 and nothing else, except that
\* metrics_handler has counted the request in g_http_requests_total before
\* it looks at the method.
C16_WrongMethod405 ==
    [][ /\ RoutesOnPathOnly
        /\ HandlerStep /\ WrongMethod =>
              /\ conn'.responses = <<[status |-> 405, by |-> proc.handler]>>
              /\ UNCHANGED <<server, lrf_device, os, healthVars>>
              /\ g_http_requests_total' =
                    g_http_requests_total + IF proc.handler = "metrics_handler" THEN 1 ELSE 0
      ]_vars

\* A POST to the metrics endpoint was answered with 405 and counted, after
\* an earlier health report.
C16_Witness ==
    /\ proc.pc = "close"
    /\ MethodIs(proc.req, "POST")
    /\ conn.invoked = <<"metrics_handler">>
    /\ conn.responses = <<[status |-> 405, by |-> "metrics_handler"]>>
    /\ g_http_requests_total = 1
    /\ hpc = "report"

\* The client descriptors that are open.
OpenClients == {fd \in os.fds : fd >= ClientFd(1)}

\* http_server_run is not inside an iteration: it is about to test the
\* flag or to accept, it has returned, or the process has ended.
BetweenConnections == proc.pc \in {"loop", "accept", "shutdown", "exited", "crashed"}

\* C17: every accepted connection is closed exactly once, and before the
\* next accept is issued, on every path; at most one connection is open and
\* at most one handler executes at any time.
C17_ClosedExactlyOnce ==
    /\ Cardinality(OpenClients) <= 1
    /\ conn.closes <= 1
    /\ proc.handler # "none" => OpenClients = {proc.client_fd} /\ Len(conn.invoked) = 1
    /\ BetweenConnections /\ os.accepted > 0 => conn.closes = 1 /\ OpenClients = {}

\* The step in which stop_application clears the flag.
StopStep == server # NULL /\ server' # NULL /\ server'[1] # server[1] /\ proc'.pc = proc.pc

InIteration == proc.pc \in {"read", "parse", "dispatch", "handler", "close"}

\* C18: http_server_stop is idempotent and changes only the running flag.
\* http_server_run looks at the flag only to decide about the next
\* iteration: no step of an iteration returns from run or issues an accept,
\* whatever the flag; a blocked accept is not interrupted; once the loop
\* test has seen the flag false no accept is issued; and run returns only
\* from the loop test, with the last connection closed.
C18_StopOnlyFlipsFlag ==
    [][ /\ server # NULL =>
              http_server_stop(http_server_stop(server[1])) = http_server_stop(server[1])
        /\ StopStep =>
              /\ server'[1] = [server[1] EXCEPT !.running = FALSE]
              /\ proc' = [proc EXCEPT !.stopped_at = proc'.stopped_at]
              /\ UNCHANGED <<lrf_device, os, conn, g_http_requests_total, healthVars>>
        /\ InIteration => proc'.pc \notin {"accept", "shutdown", "exited"}
        /\ proc.pc = "accept" => proc'.pc \in {"accept", "loop", "read"}
        /\ proc.pc = "loop" /\ ~server[1].running => proc'.pc \in {"loop", "shutdown"}
        /\ proc.pc # "shutdown" /\ proc'.pc = "shutdown" =>
              /\ proc.pc = "loop"
              /\ ~server[1].running
              /\ OpenClients = {}
              /\ os.accepted > 0 => conn.closes = 1
      ]_vars

\* stop was called while a handler was running; the response was written,
\* the connection closed, and run has returned.
C18_Witness ==
    /\ proc.stopped_at = "handler"
    /\ proc.pc = "shutdown"
    /\ Len(conn.responses) = 1
    /\ conn.closes = 1

\* C19: http_server_start returns FALSE when socket, bind or listen fails;
\* running is then FALSE and server_fd negative with no listening socket
\* open, so that the loop test of http_server_run fails at once and nothing
\* is ever accepted.  It returns TRUE only after listen succeeded, and
\* running is TRUE only then.
C19_StartFailure ==
    /\ proc.pc = "started" /\ ~proc.start_ret =>
          /\ ~server[1].running
          /\ server[1].server_fd < 0
          /\ ListenFd \notin os.fds
          /\ ~LoopContinues(server[1])
          /\ os.syslog \cap {"Failed to create socket", "Failed to bind to port",
                             "Failed to listen on port"} # {}
    /\ proc.pc = "started" /\ proc.start_ret =>
          /\ server[1].server_fd = ListenFd
          /\ ListenFd \in os.fds
          /\ "HTTP server listening on port" \in os.syslog
          /\ proc.stopped_at = "never" => server[1].running
    /\ server # NULL /\ server[1].running =>
          /\ proc.start_ret
          /\ ListenFd \in os.fds
          /\ "HTTP server listening on port" \in os.syslog
    /\ ~proc.start_ret => os.accepted = 0 /\ proc.pc \notin {"loop", "accept"}

\* bind failed: http_server_start has returned FALSE.
C19_Witness ==
    /\ proc.pc = "started"
    /\ ~proc.start_ret
    /\ "Failed to bind to port" \in os.syslog

\* C20: the process ends abnormally only when the listening endpoint could
\* not be started: then the server and the device are freed, the failure is
\* logged, the exit status is 1 and the accept loop was never entered; a
\* device that cannot be opened, handler failures and request errors never
\* end the process.
C20_AbnormalEndOnlyOnStartFailure ==
    proc.pc \in {"exited", "crashed"} /\ ~(proc.pc = "exited" /\ proc.exit_status = 0) =>
        /\ proc.pc = "exited"
        /\ proc.exit_status = 1
        /\ ~proc.start_ret
        /\ server = NULL
        /\ lrf_device = NULL
        /\ os.fds = {}
        /\ "Failed to start HTTP server" \in os.syslog
        /\ os.accepted = 0

----------------------------------------------------------------------------
(* Claims about the registry and the request body *)

\* The registry entries bound to the path.
EntriesFor(handlers, path) == {i \in 1..Len(handlers) : handlers[i].path = path}

\* C21: the lookup is an exact match of the whole request path and the
\* first matching entry wins: the handler invoked is the one of the first
\* entry registered for exactly that path, a path with no such entry (one
\* with a query string or a trailing slash added, say) gets 404 and no
\* handler, and no step of http_server_run changes the registry.
C21_FirstExactMatch ==
    [][ /\ server'[1].handlers = server[1].handlers
        /\ proc.pc = "dispatch" /\ proc'.pc # "dispatch" /\ HasMethodAndPath(proc.buffer) =>
              LET hits == EntriesFor(server[1].handlers, PathOf(proc.buffer))
              IN  IF hits = {}
                  THEN /\ proc'.pc = "close"
                       /\ conn'.invoked = <<>>
                       /\ conn'.responses = <<[status |-> 404, by |-> "http_server_run"]>>
                  ELSE /\ proc'.pc = "handler"
                       /\ \E i \in hits :
                             /\ \A j \in hits : i <= j
                             /\ proc'.handler = server[1].handlers[i].handler
                             /\ conn'.invoked = <<server[1].handlers[i].handler>>
      ]_vars

\* A path registered twice with different handlers was requested and the
\* handler registered first has answered.
C21_Witness ==
    /\ proc.pc = "close"
    /\ \E i, j \in 1..Len(server[1].handlers) :
          /\ i < j
          /\ server[1].handlers[i].path = PathOf(proc.buffer)
          /\ server[1].handlers[j].path = PathOf(proc.buffer)
          /\ server[1].handlers[i].handler # server[1].handlers[j].handler
          /\ conn.invoked = <<server[1].handlers[i].handler>>
          /\ conn.responses = <<[status |-> 200, by |-> server[1].handlers[i].handler]>>

\* What the client sent, read without the parser: where the first blank
\* line is, the Content-Length values declared before it, and the bytes
\* received after it.
BlankLineAt(bytes) ==
    IF \E i \in 1..(Len(bytes) - 1) : bytes[i] = CRLF /\ bytes[i + 1] = CRLF
    THEN CHOOSE i \in 1..(Len(bytes) - 1) :
            /\ bytes[i] = CRLF /\ bytes[i + 1] = CRLF
            /\ \A j \in 1..(i - 1) : ~(bytes[j] = CRLF /\ bytes[j + 1] = CRLF)
    ELSE 0

DeclaredLengths(bytes) ==
    {Numerals[bytes[i + 2]] : i \in {k \in 1..BlankLineAt(bytes) : bytes[k] = "Content-Length:"}}

BytesSent(bytes) ==
    IF BlankLineAt(bytes) = 0 THEN <<>>
    ELSE SubSeq(bytes, BlankLineAt(bytes) + 2, Len(bytes))

\* http_server_run has handed the request to a handler.
HandedToHandler == proc.pc = "handler"

\* C22: a request without a Content-Length header, or with Content-Length:
\* 0, reaches the handler with body NULL and body_len 0, whatever bytes
\* follow the blank line.
C22_NoLengthNoBody ==
    HandedToHandler /\ DeclaredLengths(proc.buffer) \in {{}, {0}} =>
        /\ proc.req.body = NULL
        /\ proc.req.body_len = 0

\* A request with Content-Length: 0 and bytes after the blank line is with
\* its handler.
C22_Witness ==
    /\ HandedToHandler
    /\ DeclaredLengths(proc.buffer) = {0}
    /\ BytesSent(proc.buffer) # <<>>
    /\ proc.req.body = NULL

\* C23: a request with Content-Length: n, n > 0, reaches the handler with
\* the n bytes after the blank line as its body and body_len = n; in every
\* request handed to a handler body_len is the number of bytes of body and
\* is at most the number of body bytes received.
C23_BodyIsDeclaredBytes ==
    HandedToHandler =>
        /\ \A n \in DeclaredLengths(proc.buffer) :
              n > 0 =>
                 /\ n <= Len(BytesSent(proc.buffer))
                 /\ proc.req.body = Ptr(SubSeq(BytesSent(proc.buffer), 1, n))
                 /\ Len(proc.req.body[1]) = n
                 /\ proc.req.body_len = n
        /\ proc.req.body_len = IF proc.req.body = NULL THEN 0 ELSE Len(proc.req.body[1])
        /\ proc.req.body_len <= Len(BytesSent(proc.buffer))

----------------------------------------------------------------------------
(* Claims about the metrics endpoint *)

\* The metric names of the last response.
Rendered == {metrics_response.metrics.output[i] :
                i \in 1..Len(metrics_response.metrics.output)}

\* The metrics each collaborator provides.
UptimeMetrics == {"ptz_uptime_seconds"}
MemoryMetrics == {"ptz_memory_total_bytes", "ptz_memory_available_bytes"}
LoadMetrics == {"ptz_load_average_1m"}
CpuMetrics == {"ptz_cpu_usage_percent"}
NetworkMetrics == {"ptz_network_rx_bytes_total", "ptz_network_tx_bytes_total"}
DiskMetrics == {"ptz_disk_total_bytes", "ptz_disk_free_bytes"}
ProcessMetrics == {"ptz_process_count"}
TemperatureMetrics == {"ptz_temperature_celsius"}
Counters == {"ptz_http_requests_total", "ptz_i2c_errors_total"}

\* The metrics of the collaborators that succeeded, the CPU aside.
MetricsOfSucceeded(o) ==
    UNION {IF o.uptime THEN UptimeMetrics ELSE {},
           IF o.memory THEN MemoryMetrics ELSE {},
           IF o.load THEN LoadMetrics ELSE {},
           IF o.network = "ok" THEN NetworkMetrics ELSE {},
           IF o.disk THEN DiskMetrics ELSE {},
           IF o.processes THEN ProcessMetrics ELSE {},
           IF o.temperature THEN TemperatureMetrics ELSE {}}

\* C24 as stated: whatever collaborators fail, a GET is answered with 200,
\* the metrics of every collaborator that succeeded and the two counters.
C24_EverySucceededCollaborator ==
    metrics_response.method = <<"GET">> =>
        /\ metrics_response.status = 200
        /\ MetricsOfSucceeded(metrics_response.answered) \subseteq Rendered
        /\ metrics_response.answered.cpu # NULL => CpuMetrics \subseteq Rendered
        /\ Counters \subseteq Rendered

\* C24 as amended: whatever collaborators fail, a GET is answered with 200
\* and exactly the two counters, the metrics of every collaborator other
\* than the CPU that succeeded, and the CPU usage when the CPU sample
\* succeeded and an earlier request had obtained a sample too.
C24_IndependentCollectors ==
    metrics_response.method = <<"GET">> =>
        /\ metrics_response.status = 200
        /\ Rendered = UNION {Counters,
                             MetricsOfSucceeded(metrics_response.answered),
                             IF metrics_response.answered.cpu # NULL
                                /\ metrics_response.sampled_before
                             THEN CpuMetrics ELSE {}}
        /\ Len(metrics_response.metrics.output) = Cardinality(Rendered)

\* Memory, the network counters and the temperature failed; the response
\* has the other metrics, the CPU usage among them.
C24_Witness ==
    /\ metrics_response.method = <<"GET">>
    /\ metrics_response.status = 200
    /\ ~metrics_response.answered.memory
    /\ metrics_response.answered.network = "no counters"
    /\ ~metrics_response.answered.temperature
    /\ Rendered = UNION {Counters, UptimeMetrics, LoadMetrics, CpuMetrics, DiskMetrics,
                         ProcessMetrics}

----------------------------------------------------------------------------
(* Claims about hardware failures and the request counter *)

\* The device call of the handler that is returning has failed.
DeviceCallFailed == os'.lrf_failures > os.lrf_failures

\* The response the returning handler wrote.
Answered(status, body) ==
    /\ conn'.responses = <<[status |-> status, by |-> proc.handler]>>
    /\ conn'.bodies = <<body>>

AnsweredError(status) ==
    /\ conn'.responses = <<[status |-> status, by |-> proc.handler]>>
    /\ Len(conn'.bodies) = 1
    /\ conn'.bodies[1].kind = "error"

\* A command request that gets as far as the device.
ValidCommand ==
    /\ MethodIs(proc.req, "POST")
    /\ proc.req.body = Ptr(<<"{cmd:1}">>)
    /\ proc.req.body_len > 0

\* A hardware failure leaves the server serving: the handler returns to the
\* loop, which closes the connection and tests the unchanged flag again.
StillServing ==
    /\ HandlerStep => server' = server /\ lrf_device' = lrf_device
    /\ proc.pc = "close" /\ proc'.pc # "close" => proc'.pc = "loop" /\ server' = server
    /\ proc.pc = "loop" /\ proc'.pc # "loop" /\ server[1].running => proc'.pc = "accept"

\* GET /distance and a valid POST /command answer 500 with a JSON error
\* body when the device was not opened or the device call fails, 200 else.
DeviceHandlers ==
    /\ HandlerStep /\ proc.handler = "distance_handler" /\ MethodIs(proc.req, "GET") =>
          /\ lrf_device = NULL => DeviceCallFailed
          /\ IF DeviceCallFailed
             THEN AnsweredError(500)
             ELSE Answered(200, JsonResult("distance_m"))
    /\ HandlerStep /\ proc.handler = "command_handler" /\ ValidCommand =>
          /\ lrf_device = NULL => DeviceCallFailed
          /\ IF DeviceCallFailed
             THEN AnsweredError(500)
             ELSE Answered(200, JsonResult("response"))

\* C25 as stated: when the device was not opened or a read or command has
\* failed, GET /distance and POST /command answer 500 with a JSON error
\* body, GET /status answers 200 with connected = false, and the server
\* goes on serving.
C25_HardwareFailure500 ==
    [][ /\ DeviceHandlers
        /\ StillServing
        /\ HandlerStep /\ proc.handler = "status_handler" /\ MethodIs(proc.req, "GET")
              /\ (lrf_device = NULL \/ os.lrf_failures > 0)
              => Answered(200, JsonResult("connected: false"))
      ]_vars

\* C25 as amended: GET /status answers 200 with connected = false exactly
\* when the device was not opened; failed reads and commands of an open
\* device do not change what it reports.
C25_HardwareFailureStatus ==
    [][ /\ DeviceHandlers
        /\ StillServing
        /\ HandlerStep /\ proc.handler = "status_handler" /\ MethodIs(proc.req, "GET")
              => Answered(200, JsonResult(IF lrf_device = NULL
                                          THEN "connected: false" ELSE "connected: true"))
      ]_vars

\* The device was not opened, a request was answered 500, and the next
\* connection has been accepted and its status request answered.
C25_Witness ==
    /\ lrf_device = NULL
    /\ proc.program = "lrf-controller"
    /\ os.lrf_failures = 1
    /\ os.accepted = 2
    /\ proc.pc = "close"
    /\ conn.responses = <<[status |-> 200, by |-> "status_handler"]>>
    /\ conn.bodies = <<JsonResult("connected: false")>>

\* C26: between two requests the counter that the metrics endpoint renders
\* as ptz_http_requests_total is the number of requests the dispatcher has
\* handled, whatever their path, method and outcome.
C26_CounterCountsRequests ==
    proc.program = "axis-lh-server" /\ proc.pc \in {"loop", "accept", "shutdown"} =>
        g_http_requests_total = proc.handled

\* C27: calculate_cpu_usage returns -1 exactly for a null pointer, 0 when
\* the total did not change, and for every pair of samples a percentage
\* between 0 and 100, also when a counter of curr is below that of prev.
C27_UsageIsPercentage ==
    cpu_call.pc = "returned" =>
        IF cpu_call.prev = NULL \/ cpu_call.curr = NULL
        THEN cpu_call.usage = Quotient(-1, 1)
        ELSE /\ 0 <= cpu_call.usage.num
             /\ cpu_call.usage.num <= 100 * cpu_call.usage.den
             /\ TotalOf(cpu_call.curr[1]) = TotalOf(cpu_call.prev[1]) =>
                   cpu_call.usage.num = 0

----------------------------------------------------------------------------
(* Claims about the bounds of a log entry *)

\* The first n characters of a text.
FirstChars(text, n) == IF Len(text) <= n THEN text ELSE SubSeq(text, 1, n)

\* Thread t is in the critical section of log_event with its slot chosen.
WritingSlot(t) ==
    /\ lframe[t].fn = "log_event"
    /\ lframe[t].pc \in {"le_severity", "le_message", "le_advance"}

\* C28: log_event has no failure path and writes only its slot: the slot
\* gets the first MAX_SEVERITY_LENGTH - 1 characters of the severity and
\* the first MAX_MESSAGE_LENGTH - 1 characters of the message, no field of
\* the ring ever holds more, the other slots are not touched, and head and
\* count move as for a short message.
C28_TruncatedInSlot ==
    [][ \A t \in Threads :
          /\ WritingSlot(t) /\ lframe'[t].pc # lframe[t].pc =>
                /\ lframe'[t].pc \in {"le_message", "le_advance", "le_unlock"}
                /\ \A i \in 0..(MAX_LOG_ENTRIES - 1) :
                      i # lframe[t].entry => g_log_buffer'.entries[i] = g_log_buffer.entries[i]
          /\ lframe[t].pc = "le_advance" /\ lframe'[t].pc = "le_unlock" =>
                /\ g_log_buffer'.entries[lframe[t].entry].severity =
                      FirstChars(lframe[t].severity, MAX_SEVERITY_LENGTH - 1)
                /\ g_log_buffer'.entries[lframe[t].entry].message =
                      FirstChars(lframe[t].message, MAX_MESSAGE_LENGTH - 1)
                /\ g_log_buffer'.head = (lframe[t].entry + 1) % MAX_LOG_ENTRIES
                /\ g_log_buffer'.count = Min(g_log_buffer.count + 1, MAX_LOG_ENTRIES)
          /\ \A i \in 0..(MAX_LOG_ENTRIES - 1) :
                /\ Len(g_log_buffer'.entries[i].severity) <= MAX_SEVERITY_LENGTH - 1
                /\ Len(g_log_buffer'.entries[i].message) <= MAX_MESSAGE_LENGTH - 1
      ]_vars

\* A call with a severity and a message longer than their fields has
\* stored both, cut, in a ring that had wrapped around.
C28_Witness ==
    \E t \in Threads :
        /\ lframe[t].pc = "le_unlock"
        /\ Len(lframe[t].severity) > MAX_SEVERITY_LENGTH - 1
        /\ Len(lframe[t].message) > MAX_MESSAGE_LENGTH - 1
        /\ Len(g_log_buffer.entries[lframe[t].entry].severity) = MAX_SEVERITY_LENGTH - 1
        /\ Len(g_log_buffer.entries[lframe[t].entry].message) = MAX_MESSAGE_LENGTH - 1
        /\ Len(appended) >= MAX_LOG_ENTRIES

----------------------------------------------------------------------------
(* C29 *)

\* The steps a thread takes inside a critical section of cache_mutex.
InSection(t) ==
    \/ TempCheck(t) \/ TempStore(t) \/ TempStale(t)
    \/ InfoCheck(t) \/ InfoStore(t) \/ InfoStale(t)

\* C29: a thread that is inside the external fetch of get_cached_temperature
\* or get_cached_device_info does not hold cache_mutex, and it stands in no
\* other thread's way: a thread waiting at the first lock gets the mutex
\* unless a third party holds it, and a thread at the test of the fast path
\* can finish its section.
C29_FetchOutsideLock ==
    \A t \in Threads :
        frame[t].pc = "fetch" =>
            /\ cache_mutex # t
            /\ \A u \in Threads \ {t} :
                   /\ frame[u].pc = "check" => ENABLED InSection(u)
                   /\ ( /\ frame[u].pc = "lock1"
                        /\ \A v \in Threads : cache_mutex # v )
                      => ENABLED MutexLock(u)

\* One thread is still inside its fetch of the temperature while another,
\* holding the mutex, is at a fast-path test that will hit.
C29_Witness ==
    \E t, u \in Threads :
        /\ t # u
        /\ frame[t].pc = "fetch" /\ frame[t].fn = "temperature"
        /\ frame[u].pc = "check" /\ frame[u].fn = "temperature"
        /\ cache_mutex = u
        /\ CacheHit(temperature_cache, now)

----------------------------------------------------------------------------
(* C30 *)

\* The places of a call at which the thread is between pthread_mutex_lock
\* and pthread_mutex_unlock.
SectionPcs == {"check", "store", "stale"}

\* The places of a call at which the thread waits in pthread_mutex_lock.
LockPcs == {"lock1", "lock2", "lock3"}

\* Thread t reads or writes a cache in this step: its section runs.
TouchesCache(t) ==
    /\ frame[t].pc \in SectionPcs
    /\ frame'[t] # frame[t]

\* C30: a thread is inside a critical section exactly when it holds
\* cache_mutex, so at most one thread is inside one and a returned thread
\* holds nothing; a waiting thread is never stuck for good, for either the
\* mutex is free and it can take it or the holder can finish its section;
\* and the caches change, and are read, only in steps of the holder.
C30_CacheUnderMutex ==
    /\ [](\A t \in Threads :
             /\ (frame[t].pc \in SectionPcs) <=> (cache_mutex = t)
             /\ \A u \in Threads \ {t} :
                    ~(frame[t].pc \in SectionPcs /\ frame[u].pc \in SectionPcs)
             /\ frame[t].pc \in LockPcs =>
                    \/ ENABLED MutexLock(t)
                    \/ \E u \in Threads : cache_mutex = u /\ ENABLED InSection(u))
    /\ [][ /\ ( \/ temperature_cache' # temperature_cache
                \/ device_info_cache' # device_info_cache )
              => \E t \in Threads : cache_mutex = t /\ TouchesCache(t)
           /\ \A t \in Threads : TouchesCache(t) => cache_mutex = t
           /\ \A t \in Threads :
                 (frame[t].pc # "done" /\ frame'[t].pc = "done") => cache_mutex' # t
         ]_vars

\* One thread holds the mutex in its stale-serving section while the other
\* waits to store the value it fetched.
C30_Witness ==
    \E t, u \in Threads :
        /\ cache_mutex = t
        /\ frame[t].pc = "stale"
        /\ frame[u].pc = "lock2"

----------------------------------------------------------------------------
(* C31 *)

\* The cache that a call of fn works on.
CacheOf(fn) == IF fn = "temperature" THEN temperature_cache ELSE device_info_cache

\* What thread t fetched, as the cache would hold it.
FetchedBy(t) ==
    IF frame[t].fn = "temperature"
    THEN CachedDouble(frame[t].temp, frame[t].now, TRUE)
    ELSE CachedDeviceInfo(frame[t].fresh_info, frame[t].now, TRUE)

\* C31: the cache is not single-flight.  A thread that misses goes to fetch
\* whether or not another thread is already fetching for the same cache, and
\* a thread whose fetch succeeded stores its own result, whatever another
\* thread stored in the meantime.
C31_NotSingleFlight ==
    [][\A t \in Threads :
          /\ ( /\ frame[t].pc = "check"
               /\ frame'[t] # frame[t]
               /\ ~CacheHit(CacheOf(frame[t].fn), now) )
             => frame'[t].pc = "fetch"
          /\ ( /\ frame[t].pc = "store"
               /\ frame'[t] # frame[t] )
             => CacheOf(frame[t].fn)' = FetchedBy(t)
      ]_vars

\* Two threads that missed the temperature cache: one has stored its result
\* and returned, the other holds a different result and is about to store
\* it over the first.
C31_SecondStoresOverFirst ==
    \E t, u \in Threads :
        /\ t # u
        /\ frame[t].pc = "store" /\ frame[t].fn = "temperature"
        /\ frame[u].pc = "done" /\ frame[u].fn = "temperature"
        /\ frame[u].path = "refreshed"
        /\ temperature_cache.valid
        /\ temperature_cache.value = frame[u].temperature.value
        /\ temperature_cache.value # frame[t].temp

\* Both threads missed the same cache and are inside its fetch.
C31_Witness ==
    \E t, u \in Threads :
        /\ t # u
        /\ frame[t].pc = "fetch" /\ frame[u].pc = "fetch"
        /\ frame[t].fn = frame[u].fn

----------------------------------------------------------------------------
(* C32 *)

\* Thread t completes the append of its log_event in this step.
Appends(t) == lframe[t].pc = "le_advance" /\ lframe'[t].pc = "le_unlock"

\* C32: head stays within 0 .. capacity - 1 and count within 0 .. capacity,
\* head equals count until the ring is full, every log_event advances head
\* by one modulo the capacity and count by one up to the capacity, and
\* nothing else moves them.
C32_HeadAndCount ==
    /\ []( /\ g_log_buffer.head \in 0..(MAX_LOG_ENTRIES - 1)
           /\ g_log_buffer.count \in 0..MAX_LOG_ENTRIES
           /\ g_log_buffer.count < MAX_LOG_ENTRIES
                 => g_log_buffer.head = g_log_buffer.count
           /\ \A t \in Threads :
                 lframe[t].pc \in {"le_unlock", "le_syslog", "le_return"}
                 => g_log_buffer.head = (lframe[t].entry + 1) % MAX_LOG_ENTRIES )
    /\ [][ /\ \A t \in Threads :
                 Appends(t) =>
                    /\ g_log_buffer'.head = (g_log_buffer.head + 1) % MAX_LOG_ENTRIES
                    /\ g_log_buffer'.count =
                          IF g_log_buffer.count = MAX_LOG_ENTRIES
                          THEN MAX_LOG_ENTRIES ELSE g_log_buffer.count + 1
           /\ ( \/ g_log_buffer'.head # g_log_buffer.head
                \/ g_log_buffer'.count # g_log_buffer.count )
              => \E t \in Threads : Appends(t)
         ]_vars

----------------------------------------------------------------------------
(* C33 *)

\* C33: when http_server_run is done with a request it read, exactly one
\* response has been produced: either one handler was invoked once and it
\* alone wrote, or no handler was invoked and the dispatcher wrote one 404
\* or one 400.
C33_ExactlyOneResponse ==
    RequestSettled =>
        /\ Len(conn.responses) = 1
        /\ \/ /\ Len(conn.invoked) = 1
              /\ conn.responses[1].by = conn.invoked[1]
           \/ /\ conn.invoked = <<>>
              /\ conn.responses[1].by = "http_server_run"
              /\ conn.responses[1].status \in {400, 404}

----------------------------------------------------------------------------
(* C34 *)

\* The array a pointer of a HealthReport designates, as it is now.
ChecksOf(report) == IF report.checks = StaticChecks THEN checks ELSE <<>>
DependenciesOf(report) == IF report.dependencies = StaticDeps THEN deps ELSE <<>>

\* C34: the checks and dependencies reachable through a filled HealthReport
\* are those it was filled with, whatever calls of generate_health_report
\* came later.
C34_ReportOwnsItsChecks ==
    \A r \in ReportIds :
        reports[r].checks # NULL =>
            /\ ChecksOf(reports[r]) = reports[r].filled_with.checks
            /\ DependenciesOf(reports[r]) = reports[r].filled_with.deps

----------------------------------------------------------------------------
(* C35 *)

\* Thread t returns from a call with a non-null argument in this step.
ReturnsFromSection(t) == frame[t].pc \in SectionPcs /\ frame'[t].pc = "done"

\* C35: a cache that is valid stays valid, and a call that returns while
\* its cache is valid returns success; so every call made after the first
\* successful fetch succeeds, whatever the later fetches answer.
C35_ValidForGood ==
    [][ /\ temperature_cache.valid => temperature_cache'.valid
        /\ device_info_cache.valid => device_info_cache'.valid
        /\ \A t \in Threads :
              ReturnsFromSection(t) /\ CacheOf(frame[t].fn).valid
                 => frame'[t].ret = 0
      ]_vars

\* The client has been cleaned up after a successful fetch, so no fetch
\* can succeed; a device-info call made since then has failed to fetch and
\* returned success with the cached record.
C35_Witness ==
    \E t \in Threads :
        /\ ~g_vapix_initialized
        /\ frame[t].pc = "done" /\ frame[t].fn = "device_info"
        /\ frame[t].path = "stale" /\ frame[t].ret = 0
        /\ refresh_failed.device_info
        /\ device_info_cache.valid

----------------------------------------------------------------------------
(* C36 *)

\* C36: the timestamp of a valid cache never decreases, and a storing
\* section never replaces what a call that read the clock later has stored.
C36_TimestampMonotone ==
    [][ /\ temperature_cache.valid
              => temperature_cache'.timestamp >= temperature_cache.timestamp
        /\ device_info_cache.valid
              => device_info_cache'.timestamp >= device_info_cache.timestamp
        /\ \A t \in Threads :
              ( /\ frame[t].pc = "store" /\ frame'[t].pc = "done"
                /\ CacheOf(frame[t].fn).valid
                /\ CacheOf(frame[t].fn).timestamp > frame[t].now )
                 => CacheOf(frame[t].fn)' = CacheOf(frame[t].fn)
      ]_vars

----------------------------------------------------------------------------
(* C37 *)

\* C37: a negative reading never enters the cache and never reaches a
\* caller.  A fetch that the device answered with 200 and a negative number
\* reports failure; the call then leaves the cache as it is and returns the
\* cached value if there is one, else -1 with the caller's variable
\* untouched.
C37_NoNegativeTemperature ==
    /\ []( /\ temperature_cache.valid => temperature_cache.value >= 0
           /\ \A t \in Threads :
                 /\ ( /\ frame[t].fn = "temperature" /\ frame[t].pc = "done"
                      /\ frame[t].path # "null" /\ frame[t].ret = 0 )
                    => frame[t].temperature.written /\ frame[t].temperature.value >= 0
                 /\ frame[t].negative =>
                       /\ frame[t].pc \in {"lock3", "stale", "done"}
                       /\ frame[t].pc = "done" => frame[t].path \in {"stale", "failed"} )
    /\ [][\A t \in Threads :
             /\ frame[t].pc = "fetch" /\ frame'[t].negative => frame'[t].rc = -1
             /\ frame[t].negative /\ frame'[t].negative /\ frame'[t] # frame[t] =>
                   /\ temperature_cache' = temperature_cache
                   /\ frame[t].pc = "stale" /\ frame'[t].pc = "done" =>
                         IF temperature_cache.valid
                         THEN /\ frame'[t].ret = 0
                              /\ frame'[t].temperature =
                                    [written |-> TRUE, value |-> temperature_cache.value]
                         ELSE /\ frame'[t].ret = -1
                              /\ frame'[t].temperature = frame[t].temperature
         ]_vars

\* The device answered a call with a negative number when the cache held
\* 45: the call has returned 45, the stale value, and the cache still
\* holds it.
C37_Witness ==
    \E t \in Threads :
        /\ frame[t].negative
        /\ frame[t].pc = "done" /\ frame[t].path = "stale" /\ frame[t].ret = 0
        /\ frame[t].temperature = [written |-> TRUE, value |-> 45]
        /\ temperature_cache.valid /\ temperature_cache.value = 45

\* The device answered a call with a negative number when the cache was
\* empty: the call has failed.
C37_FailsWithoutValue ==
    \E t \in Threads :
        /\ frame[t].negative
        /\ frame[t].pc = "done" /\ frame[t].path = "failed" /\ frame[t].ret = -1
        /\ ~frame[t].temperature.written

----------------------------------------------------------------------------
(* C38 *)

\* C38: the message a log_event call hands to syslog is the one it
\* formatted from its own arguments.
C38_ForwardsOwnMessage ==
    \A t \in Threads :
        lframe[t].pc = "le_return" =>
            lframe[t].forwarded = snprintf(MAX_MESSAGE_LENGTH, lframe[t].message)

----------------------------------------------------------------------------
(* C39 *)

\* Thread t takes a step of get_recent_logs_limited, the call and the
\* return included.
SnapshotStep(t) ==
    /\ lframe'[t] # lframe[t]
    /\ "get_recent_logs_limited" \in {lframe[t].fn, lframe'[t].fn}

\* s is t or t with elements appended to it.
Extends(s, t) == Len(s) >= Len(t) /\ SubSeq(s, 1, Len(t)) = t

\* C39: no step of a snapshot changes head, count, an entry or the
\* initialisation flag; the caller's array only grows at its end, keeping
\* what it held at the call; and on a ring that was never initialised the
\* call returns with the array as it was handed in.
C39_SnapshotReadsOnly ==
    /\ [](\A t \in Threads :
             /\ lframe[t].fn = "get_recent_logs_limited"
                   => Extends(lframe[t].logs_array, lframe[t].given)
             /\ lframe[t].pc = "gr_return"
                   => /\ lframe[t].logs_array = lframe[t].given
                      /\ ~g_log_buffer_initialized
                      /\ g_log_buffer = ZeroLogBuffer)
    /\ [][\A t \in Threads :
             SnapshotStep(t) =>
                /\ g_log_buffer'.head = g_log_buffer.head
                /\ g_log_buffer'.count = g_log_buffer.count
                /\ g_log_buffer'.entries = g_log_buffer.entries
                /\ g_log_buffer_initialized' = g_log_buffer_initialized
                /\ lframe'[t].fn = lframe[t].fn
                      => Extends(lframe'[t].logs_array, lframe[t].logs_array)
         ]_vars

\* A snapshot of two entries of a full, wrapped ring into an array that
\* held one element: the array holds that element and the two entries.
C39_Witness ==
    /\ lframe[1].pc = "gr_unlock"
    /\ lframe[1].given = <<"earlier element">>
    /\ Len(lframe[1].logs_array) = 3
    /\ lframe[1].entries_to_export = 2
    /\ g_log_buffer.count = MAX_LOG_ENTRIES
    /\ Len(appended) > MAX_LOG_ENTRIES

\* A snapshot on a ring that was never initialised has left the caller's
\* array and the ring alone.
C39_UninitialisedWitness ==
    /\ lframe[1].pc = "gr_return"
    /\ lframe[1].given = <<"earlier element">>
    /\ lframe[1].logs_array = <<"earlier element">>
    /\ ~g_log_buffer_initialized

----------------------------------------------------------------------------
(* C40 *)

\* The CPU counters the last request read, NULL when the read failed.
CpuRead == metrics_response.answered.cpu

\* A GET request is answered in this step.
MetricsCollected ==
    /\ g_http_requests_total' # g_http_requests_total
    /\ metrics_response'.method = <<"GET">>

\* C40: the CPU metric is emitted only when an earlier request has read
\* the CPU counters, and then its value is computed from the sample kept
\* and the one just read; a failed read leaves the sample kept and the
\* first-sample flag as they were; a successful read makes its sample the
\* one kept and clears the flag; as long as the flag is set no sample was
\* kept.
C40_CpuFromSecondSample ==
    /\ [](cpu_statics.first_sample => cpu_statics.prev_cpu = ZeroCpuStats)
    /\ [][MetricsCollected =>
            /\ "ptz_cpu_usage_percent" \in Rendered' =>
                  /\ ~cpu_statics.first_sample
                  /\ CpuRead' # NULL
                  /\ metrics_response'.metrics.cpu_usage =
                        calculate_cpu_usage(Ptr(cpu_statics.prev_cpu), CpuRead')
            /\ cpu_statics.first_sample => "ptz_cpu_usage_percent" \notin Rendered'
            /\ CpuRead' = NULL => cpu_statics' = cpu_statics
            /\ CpuRead' # NULL =>
                  cpu_statics' = [prev_cpu |-> CpuRead'[1], first_sample |-> FALSE]
         ]_vars

\* The counters were read before; the last request read them again and its
\* response carries the usage between the two samples, 200 / 3 per cent.
C40_Witness ==
    /\ metrics_response.status = 200
    /\ metrics_response.sampled_before
    /\ CpuRead = Ptr(CPUStats(3, 0, 0, 2, 0, 0, 0, 0))
    /\ "ptz_cpu_usage_percent" \in Rendered
    /\ metrics_response.metrics.cpu_usage = Quotient(200, 3)
    /\ cpu_statics = [prev_cpu |-> CpuRead[1], first_sample |-> FALSE]

\* The counters were read before; the last request failed to read them:
\* no CPU metric, and the sample kept is still there.
C40_FailedReadWitness ==
    /\ metrics_response.status = 200
    /\ metrics_response.sampled_before
    /\ CpuRead = NULL
    /\ "ptz_cpu_usage_percent" \notin Rendered
    /\ ~cpu_statics.first_sample
    /\ cpu_statics.prev_cpu # ZeroCpuStats

====
